---- MODULE Spec2Model ----
(***************************************************************************)
(* The session registry of the quiz server (server/index.js, kept here as  *)
(* src/unnamed/part_007): the in-memory map of rooms and the socket.io     *)
(* handlers create_room, join_room, update_config, start_game,             *)
(* submit_answer and disconnect.  Every handler runs to completion before  *)
(* the next message is taken (node's event loop), so each handler is one   *)
(* action.                                                                 *)
(*                                                                         *)
(* Opaque payloads are tokens: a config is a number 1..NumConfigs, a       *)
(* question list a number 1..NumQuestionSets (0 is the empty list a room   *)
(* is created with).  A player's name and avatar are carried by the code   *)
(* but read by no handler, and are left out of the seat record.            *)
(***************************************************************************)
EXTENDS Integers, Sequences, FiniteSets, TLC

\* ------------------------------------------------------------------ bounds
NumRoomIds == 1         \* room codes generateRoomId can return
NumSockets == 2         \* connections the server sees over the run
NumReSockets == 3       \* connections in the reconnection specification
NumStableIds == 2       \* caller-supplied player.id values
NumConfigs == 2         \* distinct config payloads
NumQuestionSets == 2    \* distinct question-list payloads
MaxSubmits == 2         \* accepted submit_answer messages over the run
NumFullIds == 9         \* player.id values in the capacity specification
NumManyRoomIds == 2     \* room codes in the several-rooms specification
MaxQuestions == 3       \* questions the client holds, fetched ones included
MaxStreak == 7          \* streaks the scoring functions are applied to
MaxElapsed == 11        \* whole seconds an answer can take
MaxRemote == 1          \* answers of the other participant of an online room
MaxReturned == 6        \* questions the model answers a fetch with
MaxHeld == 13           \* questions held in the fetch specification

\* -------------------------------------------------------- program constants
MaxPlayers == 8         \* room.players.length >= 8
BASE_POINTS == 100      \* const BASE_POINTS = 100
MaxJitter == 50         \* (Math.random() * 0.10) - 0.05, in thousandths
LoadMoreCount == 5      \* handleLoadMoreQuestions asks for 5 questions
BackupSize == 10        \* BACKUP_QUESTIONS: Array.from({ length: 10 })

RoomIds == 1..NumRoomIds
ManyRoomIds == 1..NumManyRoomIds
AllRoomIds == RoomIds \cup ManyRoomIds
Sockets == 1..NumSockets
ReSockets == 1..NumReSockets
AllSockets == Sockets \cup ReSockets
StableIds == 1..NumStableIds
FullIds == 1..NumFullIds
Configs == 1..NumConfigs
QuestionSets == 1..NumQuestionSets
Deltas == {-1, 0, 120}  \* scoreToAdd values a client reports

\* The error texts, named after what they say ('Sala nao encontrada',
\* 'O jogo ja comecou', 'Sala cheia', 'Apenas o Host pode iniciar o jogo').
ErrNotFound == "RoomNotFound"
ErrStarted == "GameAlreadyStarted"
ErrFull == "RoomFull"
ErrNotHost == "Unauthorized"

VARIABLES
    rooms,      \* the Map rooms: a function from the registered ids to rooms
    channel,    \* socket.io's room membership: channel[r] = sockets joined to r
    sock,       \* each connection: "idle" (not yet made), "open", "closed"
    emitted,    \* what the last handler emitted, in order
    last,       \* the message the last handler handled: [op, sock, room]
    submits,    \* number of submit_answer messages applied (bounds the run)
    sent,       \* history: sent[r][p] = sum of the deltas submitted to room r
                \* from the transport of seat p since the seat was made
    credited,   \* history: credited[r][p] = sum of the deltas of the
                \* submit_answer messages the registry resolved to seat p
    superseded, \* history: superseded[r] = the transports a rejoin has taken
                \* the host seat of room r from
    scen,       \* history: how far the run has followed the alice/bob scenario
    hostLost,   \* history: hostLost[r] = the host transport of room r that
                \* disconnected while the room was in PLAYING, 0 if none
    arena,      \* the state of the client's Arena component (round engine)
    calc        \* one application of the scoring functions: inputs, results

vars ==
    <<rooms, channel, sock, emitted, last, submits, sent, credited, superseded,
      scen, hostLost, arena, calc>>

\* ----------------------------------------------------------------- helpers
MapSet(m, k, v) == [x \in DOMAIN m \cup {k} |-> IF x = k THEN v ELSE m[x]]

Emit(ev, to, data) == [ev |-> ev, to |-> to, data |-> data]

Msg(op, s, r) == [op |-> op, sock |-> s, room |-> r]

\* players.findIndex(p => p.id === id): the first index, 0 for JavaScript's -1
FindIndexById(players, pid) ==
    IF \E i \in 1..Len(players) : players[i].id = pid
    THEN CHOOSE i \in 1..Len(players) :
            /\ players[i].id = pid
            /\ \A j \in 1..(i - 1) : players[j].id # pid
    ELSE 0

\* FindIndexBySocket that falls back on the first seat
FindIndexBySocketElseFirst(players, s) ==
    IF \E i \in 1..Len(players) : players[i].socketId = s
    THEN CHOOSE i \in 1..Len(players) :
            /\ players[i].socketId = s
            /\ \A j \in 1..(i - 1) : players[j].socketId # s
    ELSE IF Len(players) > 0 THEN 1 ELSE 0

\* players.findIndex(p => p.socketId === socket.id)
FindIndexBySocket(players, s) ==
    IF \E i \in 1..Len(players) : players[i].socketId = s
    THEN CHOOSE i \in 1..Len(players) :
            /\ players[i].socketId = s
            /\ \A j \in 1..(i - 1) : players[j].socketId # s
    ELSE 0

\* players.splice(index, 1)
Splice(players, index) ==
    [i \in 1..(Len(players) - 1) |->
        IF i < index THEN players[i] ELSE players[i + 1]]

\* { ...player, socketId: socket.id, score: 0, streak: 0 }; the client's
\* player object has no correctAnswersCount, which the code reads as
\* (player.correctAnswersCount || 0)
NewSeat(pid, s) ==
    [id |-> pid, socketId |-> s, score |-> 0, streak |-> 0,
     correctAnswersCount |-> 0]

AllIds == FullIds \cup StableIds

NoSent == [p \in AllIds |-> 0]

ScenAt(stage, r, a, b, n) == [stage |-> stage, r |-> r, a |-> a, b |-> b, n |-> n]

\* The Arena component is not mounted; no scoring function is applied
NoArena == [mounted |-> FALSE]

NoCalc == [done |-> FALSE]

\* -------------------------------------------------------------------- Init
\* The server after start-up
ServerInit ==
    /\ rooms = <<>>
    /\ channel = [r \in AllRoomIds |-> {}]
    /\ sock = [s \in AllSockets |-> "idle"]
    /\ emitted = <<>>
    /\ last = Msg("none", 0, 0)
    /\ submits = 0
    /\ sent = [r \in RoomIds |-> NoSent]
    /\ credited = [r \in RoomIds |-> NoSent]
    /\ superseded = [r \in RoomIds |-> {}]
    /\ scen = ScenAt(0, 0, 0, 0, 0)
    /\ hostLost = [r \in RoomIds |-> 0]

Init == ServerInit /\ arena = NoArena /\ calc = NoCalc

\* io.on('connection'): socket ids are fresh; they are taken in order
Connect(s) ==
    /\ sock[s] = "idle"
    /\ \A t \in AllSockets : t < s => sock[t] # "idle"
    /\ sock' = [sock EXCEPT ![s] = "open"]
    /\ emitted' = <<>>
    /\ last' = Msg("connection", s, 0)
    /\ UNCHANGED <<rooms, channel, submits>>

\* Taken that finds no id registered
TakenNever(rms, id) == FALSE

\* rooms.has(roomId): the test of the loop that draws room ids
Taken(rms, id) == id \in DOMAIN rms

\* socket.on('create_room'): id is what the generateRoomId loop ends with
CreateRoom(s, id, pid, cfg) ==
    /\ sock[s] = "open"
    /\ ~Taken(rooms, id)
    /\ rooms' = MapSet(rooms, id,
                  [id |-> id, hostId |-> s, players |-> <<NewSeat(pid, s)>>,
                   config |-> cfg, phase |-> "LOBBY", questions |-> 0,
                   currentQuestionIndex |-> -1])
    /\ channel' = [channel EXCEPT ![id] = @ \cup {s}]
    /\ emitted' = << Emit("room_created", {s}, id),
                     Emit("update_players", channel'[id], rooms'[id].players),
                     Emit("room_config_updated", channel'[id], cfg) >>
    /\ last' = Msg("create_room", s, id)
    /\ UNCHANGED <<sock, submits>>

\* JoinError with the capacity check made before the phase check
JoinErrorCapacityFirst(rms, r, pid) ==
    IF r \notin DOMAIN rms THEN ErrNotFound
    ELSE IF Len(rms[r].players) >= MaxPlayers
            /\ FindIndexById(rms[r].players, pid) = 0
         THEN ErrFull
    ELSE IF rms[r].phase # "LOBBY" /\ FindIndexById(rms[r].players, pid) = 0
         THEN ErrStarted
    ELSE "ok"

\* JoinError with the capacity test written players.length > 8
JoinErrorOffByOne(rms, r, pid) ==
    IF r \notin DOMAIN rms THEN ErrNotFound
    ELSE IF rms[r].phase # "LOBBY" /\ FindIndexById(rms[r].players, pid) = 0
         THEN ErrStarted
    ELSE IF Len(rms[r].players) > MaxPlayers
            /\ FindIndexById(rms[r].players, pid) = 0
         THEN ErrFull
    ELSE "ok"

\* JoinError without the rejoin exemption of the capacity check
JoinErrorNoRejoin(rms, r, pid) ==
    IF r \notin DOMAIN rms THEN ErrNotFound
    ELSE IF rms[r].phase # "LOBBY" /\ FindIndexById(rms[r].players, pid) = 0
         THEN ErrStarted
    ELSE IF Len(rms[r].players) >= MaxPlayers
         THEN ErrFull
    ELSE "ok"

\* The checks join_room makes before it touches the room: the error it
\* emits, or "ok"
JoinError(rms, r, pid) ==
    IF r \notin DOMAIN rms THEN ErrNotFound
    ELSE IF rms[r].phase # "LOBBY" /\ FindIndexById(rms[r].players, pid) = 0
         THEN ErrStarted
    ELSE IF Len(rms[r].players) >= MaxPlayers
            /\ FindIndexById(rms[r].players, pid) = 0
         THEN ErrFull
    ELSE "ok"

\* RejoinHost without the transfer
RejoinHostKeep(room, idx, s) == room.hostId

\* The rejoin branch's host transfer: the host id after the seat at idx is
\* reclaimed by socket s
RejoinHost(room, idx, s) ==
    IF room.hostId = room.players[idx].socketId \/ idx = 1
    THEN s
    ELSE room.hostId

\* Rejoin that seats the player afresh, as the new-player branch does
RejoinFresh(room, idx, s) ==
    [room EXCEPT !.hostId = RejoinHost(room, idx, s),
                 !.players[idx] = NewSeat(@.id, s)]

\* The rejoin branch: the room after the seat at idx is reclaimed by s
Rejoin(room, idx, s) ==
    [room EXCEPT !.hostId = RejoinHost(room, idx, s),
                 !.players[idx].socketId = s]

\* AddSeat that puts the new seat in front of the roster
AddSeatInFront(room, pid, s) ==
    [room EXCEPT !.players = << NewSeat(pid, s) >> \o @]

\* The new-player branch: the room after a seat is appended
AddSeat(room, pid, s) ==
    [room EXCEPT !.players = Append(@, NewSeat(pid, s))]

\* GameStarted without the stored question list
GameStartedNoQuestions(room) ==
    [roomId |-> room.id, questions |-> 0, players |-> room.players,
     config |-> room.config]

GameStarted(room) ==
    [roomId |-> room.id, questions |-> room.questions,
     players |-> room.players, config |-> room.config]

\* socket.on('join_room')
JoinRoom(s, r, pid) ==
    /\ sock[s] = "open"
    /\ last' = Msg("join_room", s, r)
    /\ UNCHANGED <<sock, submits>>
    /\ LET err == JoinError(rooms, r, pid) IN
       IF err # "ok"
       THEN /\ emitted' = << Emit("error", {s}, err) >>
            /\ UNCHANGED <<rooms, channel>>
       ELSE LET room == rooms[r]
                idx == FindIndexById(room.players, pid)
            IN
            /\ channel' = [channel EXCEPT ![r] = @ \cup {s}]
            /\ IF idx # 0
               THEN /\ rooms' = [rooms EXCEPT ![r] = Rejoin(room, idx, s)]
                    /\ emitted' =
                         << Emit("update_players", channel'[r], rooms'[r].players),
                            Emit("room_config_updated", {s}, room.config) >>
                         \o (IF room.phase = "PLAYING"
                             THEN << Emit("game_started", {s}, GameStarted(rooms'[r])) >>
                             ELSE <<>>)
               ELSE /\ rooms' = [rooms EXCEPT ![r] = AddSeat(room, pid, s)]
                    /\ emitted' =
                         << Emit("update_players", channel'[r], rooms'[r].players),
                            Emit("room_config_updated", {s}, room.config) >>

\* IsHost that lets every seated transport pass
IsHostOrSeated(room, s) ==
    room.hostId = s \/ FindIndexBySocket(room.players, s) # 0

\* room.hostId !== socket.id, negated: the sender is the host
IsHost(room, s) == room.hostId = s

\* OthersIn as io.to(roomId): the sender included
OthersInAll(chan, s) == chan

\* socket.to(roomId): every socket of the channel but the sender
OthersIn(chan, s) == chan \ {s}

\* UpdateConfig that writes the config of every registered room
UpdateConfigEveryRoom(s, r, cfg) ==
    /\ sock[s] = "open"
    /\ last' = Msg("update_config", s, r)
    /\ UNCHANGED <<channel, sock, submits>>
    /\ IF r \in DOMAIN rooms /\ IsHost(rooms[r], s)
       THEN /\ rooms' = [q \in DOMAIN rooms |-> [rooms[q] EXCEPT !.config = cfg]]
            /\ emitted' = << Emit("room_config_updated", OthersIn(channel[r], s), cfg) >>
       ELSE /\ emitted' = <<>>
            /\ UNCHANGED rooms

\* socket.on('update_config')
UpdateConfig(s, r, cfg) ==
    /\ sock[s] = "open"
    /\ last' = Msg("update_config", s, r)
    /\ UNCHANGED <<channel, sock, submits>>
    /\ IF r \in DOMAIN rooms /\ IsHost(rooms[r], s)
       THEN /\ rooms' = [rooms EXCEPT ![r].config = cfg]
            /\ emitted' = << Emit("room_config_updated", OthersIn(channel[r], s), cfg) >>
       ELSE /\ emitted' = <<>>
            /\ UNCHANGED rooms

\* The room after the host's start_game
Started(room, qs) ==
    [room EXCEPT !.questions = qs, !.currentQuestionIndex = 0,
                 !.phase = "PLAYING"]

\* socket.on('start_game'); cb: whether the client passed a callback
StartGame(s, r, qs, cb) ==
    /\ sock[s] = "open"
    /\ last' = Msg("start_game", s, r)
    /\ UNCHANGED <<channel, sock, submits>>
    /\ LET ack(x) == IF cb THEN << Emit("ack", {s}, x) >> ELSE <<>> IN
       IF r \notin DOMAIN rooms
       THEN /\ emitted' = ack(ErrNotFound)
            /\ UNCHANGED rooms
       ELSE IF ~IsHost(rooms[r], s)
       THEN /\ emitted' = ack(ErrNotHost)
            /\ UNCHANGED rooms
       ELSE /\ rooms' = [rooms EXCEPT ![r] = Started(rooms[r], qs)]
            /\ emitted' = << Emit("game_started", channel[r], GameStarted(rooms'[r])) >>
                          \o ack("success")

\* ApplyAnswer with the streak test written scoreToAdd >= 0
ApplyAnswerGeq(player, scoreToAdd) ==
    IF scoreToAdd >= 0
    THEN [player EXCEPT !.score = @ + scoreToAdd,
                        !.streak = @ + 1,
                        !.correctAnswersCount = @ + 1]
    ELSE [player EXCEPT !.score = @ + scoreToAdd,
                        !.streak = 0]

\* The score update of submit_answer on the sender's seat
ApplyAnswer(player, scoreToAdd) ==
    IF scoreToAdd > 0
    THEN [player EXCEPT !.score = @ + scoreToAdd,
                        !.streak = @ + 1,
                        !.correctAnswersCount = @ + 1]
    ELSE [player EXCEPT !.score = @ + scoreToAdd,
                        !.streak = 0]

\* socket.on('submit_answer')
SubmitAnswer(s, r, d) ==
    /\ sock[s] = "open"
    /\ last' = Msg("submit_answer", s, r)
    /\ UNCHANGED <<channel, sock>>
    /\ IF r \in DOMAIN rooms /\ FindIndexBySocket(rooms[r].players, s) # 0
       THEN LET idx == FindIndexBySocket(rooms[r].players, s) IN
            /\ submits < MaxSubmits
            /\ rooms' = [rooms EXCEPT ![r].players[idx] = ApplyAnswer(@, d)]
            /\ emitted' = << Emit("update_players", channel[r], rooms'[r].players) >>
            /\ submits' = submits + 1
       ELSE /\ emitted' = <<>>
            /\ UNCHANGED <<rooms, submits>>

\* Leaves without the phase test
LeavesAnyPhase(room, s) == FindIndexBySocket(room.players, s) # 0

\* The disconnect handler's test on one room: socket s holds a seat and the
\* room is in the lobby, so the seat is spliced out
Leaves(room, s) ==
    FindIndexBySocket(room.players, s) # 0 /\ room.phase = "LOBBY"

\* Deleted as soon as the host leaves the lobby
DeletedWithHost(room, s) == Leaves(room, s) /\ room.hostId = s

\* rooms.delete(roomId): the spliced roster is empty
Deleted(room, s) == Leaves(room, s) /\ Len(room.players) = 1

\* DisconnectRoom without the host migration
DisconnectRoomNoMigrate(room, s) ==
    IF Leaves(room, s)
    THEN [room EXCEPT !.players =
                          Splice(room.players, FindIndexBySocket(room.players, s))]
    ELSE room

\* DisconnectRoom that hands the host on in a started room as well
DisconnectRoomAlwaysMigrate(room, s) ==
    IF Leaves(room, s)
    THEN LET rest == Splice(room.players, FindIndexBySocket(room.players, s)) IN
         [room EXCEPT !.players = rest,
                      !.hostId = IF Len(rest) # 0 /\ room.hostId = s
                                 THEN rest[1].socketId
                                 ELSE @]
    ELSE [room EXCEPT !.hostId =
             IF room.hostId = s
                /\ \E i \in 1..Len(room.players) : room.players[i].socketId # s
             THEN (LET i == CHOOSE i \in 1..Len(room.players) :
                                room.players[i].socketId # s
                   IN room.players[i].socketId)
             ELSE @]

\* The body of the disconnect handler's forEach on one room that stays
DisconnectRoom(room, s) ==
    IF Leaves(room, s)
    THEN LET rest == Splice(room.players, FindIndexBySocket(room.players, s)) IN
         [room EXCEPT !.players = rest,
                      !.hostId = IF Len(rest) # 0 /\ room.hostId = s
                                 THEN rest[1].socketId
                                 ELSE @]
    ELSE room

\* The update_players broadcasts of the forEach, rooms taken by ascending id
\* (the Map iterates in insertion order; the rooms do not interact)
RECURSIVE DisconnectEmits(_, _, _, _)
DisconnectEmits(rms, chan, ids, s) ==
    IF ids = {} THEN <<>>
    ELSE LET r == CHOOSE x \in ids : \A y \in ids : x <= y IN
         (IF Leaves(rms[r], s)
          THEN << Emit("update_players", chan[r], DisconnectRoom(rms[r], s).players) >>
          ELSE <<>>)
         \o DisconnectEmits(rms, chan, ids \ {r}, s)

\* socket.on('disconnect'); socket.io has taken the socket out of every
\* channel before the handler runs
Disconnect(s) ==
    /\ sock[s] = "open"
    /\ sock' = [sock EXCEPT ![s] = "closed"]
    /\ channel' = [r \in AllRoomIds |-> channel[r] \ {s}]
    /\ rooms' = [r \in {x \in DOMAIN rooms : ~Deleted(rooms[x], s)} |->
                    DisconnectRoom(rooms[r], s)]
    /\ emitted' = DisconnectEmits(rooms, channel', DOMAIN rooms, s)
    /\ last' = Msg("disconnect", s, 0)
    /\ UNCHANGED submits

\* ---------------------------------------------------------------- histories
\* Each history is brought up to date with the message just handled:
\* op from socket s for room r, with payload x (the player id of a create
\* or join, the config, the question list, the delta)
Seated(room, p) == FindIndexById(room.players, p) # 0

SeatOf(room, p) == room.players[FindIndexById(room.players, p)]

\* sent[r][p]: every seat of the room whose transport is the sender of a
\* submit_answer is charged the delta; a new seat starts at 0
TrackSent(op, s, r, x) ==
    sent' = [q \in RoomIds |-> [p \in AllIds |->
        IF q \notin DOMAIN rooms' \/ q \notin DOMAIN rooms THEN 0
        ELSE IF ~Seated(rooms'[q], p) \/ ~Seated(rooms[q], p) THEN 0
        ELSE IF /\ op = "submit_answer"
                /\ q = r
                /\ SeatOf(rooms[q], p).socketId = s
             THEN sent[q][p] + x
             ELSE sent[q][p]]]

\* credited[r][p]: the seat the registry resolves the sender of a
\* submit_answer to, the first seat with the sender's transport id, is
\* charged the delta; a new seat starts at 0
TrackCredited(op, s, r, x) ==
    credited' = [q \in RoomIds |-> [p \in AllIds |->
        IF q \notin DOMAIN rooms' \/ q \notin DOMAIN rooms THEN 0
        ELSE IF ~Seated(rooms'[q], p) \/ ~Seated(rooms[q], p) THEN 0
        ELSE IF /\ op = "submit_answer"
                /\ q = r
                /\ FindIndexBySocket(rooms[q].players, s) = FindIndexById(rooms[q].players, p)
             THEN credited[q][p] + x
             ELSE credited[q][p]]]

\* superseded[r]: a join of player x from socket s, when x's seat has the
\* room's host transport id and another transport than s, takes the host
\* seat from that transport
TrackSuperseded(op, s, r, x) ==
    superseded' = [q \in RoomIds |->
        IF q \notin DOMAIN rooms' \/ q \notin DOMAIN rooms THEN {}
        ELSE IF /\ op = "join_room"
                /\ q = r
                /\ Seated(rooms[q], x)
                /\ SeatOf(rooms[q], x).socketId = rooms[q].hostId
                /\ SeatOf(rooms[q], x).socketId # s
             THEN superseded[q] \cup {SeatOf(rooms[q], x).socketId}
             ELSE superseded[q]]

\* In the reconnection-race specification superseded[r] holds one record per
\* reclaimed seat: a join of player x from socket s, when x's seat has another
\* transport than s, is remembered with the old and the new transport for as
\* long as x stays seated and no other transport reclaims the seat
TrackReplaced(op, s, r, x) ==
    superseded' = [q \in RoomIds |->
        IF q \notin DOMAIN rooms' \/ q \notin DOMAIN rooms THEN {}
        ELSE LET reclaims == /\ op = "join_room"
                             /\ q = r
                             /\ Seated(rooms[q], x)
                             /\ SeatOf(rooms[q], x).socketId # s
                 kept == {rec \in superseded[q] :
                             /\ Seated(rooms'[q], rec.id)
                             /\ ~(reclaims /\ rec.id = x)}
             IN IF reclaims
                THEN kept \cup {[id |-> x,
                                 old |-> SeatOf(rooms[q], x).socketId,
                                 new |-> s]}
                ELSE kept]

\* hostLost[r]: the disconnect of socket s while it is the host of a room in
\* PLAYING is remembered for as long as the room is registered
TrackHostLost(op, s, r, x) ==
    hostLost' = [q \in RoomIds |->
        IF q \notin DOMAIN rooms' \/ q \notin DOMAIN rooms THEN 0
        ELSE IF /\ op = "disconnect"
                /\ rooms[q].phase = "PLAYING"
                /\ rooms[q].hostId = s
             THEN s
             ELSE hostLost[q]]

\* The players of the end-to-end scenario: alice has stable id 1, bob 2
Cast == [alice |-> 1, bob |-> 2]

\* The scenario, step by step: alice creates a room (stage 1), bob joins
\* from another transport (2), alice submits +120 (3), bob submits 0 (4),
\* alice's transport disconnects (5), alice joins from a new transport (6).
\* New connections may be made at any time and alice may start the game
\* once bob is in; any other message ends the scenario (stage -1).
TrackScen(op, s, r, x) ==
    LET st == scen.stage
        off == ScenAt(-1, 0, 0, 0, 0)
    IN
    scen' =
      IF op = "connection" THEN scen
      ELSE IF st = 0
      THEN IF op = "create_room" /\ x = Cast.alice
           THEN ScenAt(1, r, s, 0, 0) ELSE off
      ELSE IF st = 1
      THEN IF op = "join_room" /\ r = scen.r /\ x = Cast.bob /\ s # scen.a
           THEN ScenAt(2, scen.r, scen.a, s, 0) ELSE off
      ELSE IF st \in 2..4 /\ op = "start_game" /\ s = scen.a /\ r = scen.r
      THEN scen
      ELSE IF st = 2
      THEN IF op = "submit_answer" /\ s = scen.a /\ r = scen.r /\ x = 120
           THEN [scen EXCEPT !.stage = 3] ELSE off
      ELSE IF st = 3
      THEN IF op = "submit_answer" /\ s = scen.b /\ r = scen.r /\ x = 0
           THEN [scen EXCEPT !.stage = 4] ELSE off
      ELSE IF st = 4
      THEN IF op = "disconnect" /\ s = scen.a
           THEN [scen EXCEPT !.stage = 5] ELSE off
      ELSE IF st = 5
      THEN IF /\ op = "join_room" /\ r = scen.r /\ x = Cast.alice
              /\ s \notin {scen.a, scen.b}
           THEN [scen EXCEPT !.stage = 6, !.n = s] ELSE off
      ELSE off

\* ------------------------------------------------------ the client's scoring
\* GameMode, Difficulty and GamePhase of the client
Modes == {"CLASSIC", "SURVIVAL", "TIME_ATTACK"}

Difficulties == {"ROOKIE", "PRO", "ALL_STAR", "HALL_OF_FAME"}

Streaks == 0..MaxStreak

\* elapsedSeconds, in whole seconds (on them the floating-point results of
\* the code are the exact ones)
ElapsedSeconds == 0..MaxElapsed

\* getDifficultyMultiplier with the streak bonus of streak > 5 left out
getDifficultyMultiplierNoHotStreak(streak, baseDiff) ==
    (IF baseDiff = "HALL_OF_FAME" THEN 20
     ELSE IF baseDiff = "ALL_STAR" THEN 15
     ELSE IF baseDiff = "PRO" THEN 12
     ELSE 10)
    + (IF streak > 2 THEN 2 ELSE 0)

\* getDifficultyMultiplier, in tenths: 1.0 is 10
getDifficultyMultiplier(streak, baseDiff) ==
    (IF baseDiff = "HALL_OF_FAME" THEN 20
     ELSE IF baseDiff = "ALL_STAR" THEN 15
     ELSE IF baseDiff = "PRO" THEN 12
     ELSE 10)
    + (IF streak > 2 THEN 2 ELSE 0)
    + (IF streak > 5 THEN 5 ELSE 0)

\* Math.floor(50 * Math.max(0, 1 - (elapsedSeconds / 10)))
TimeBonus(elapsedSeconds) ==
    IF elapsedSeconds >= 10 THEN 0 ELSE (50 * (10 - elapsedSeconds)) \div 10

\* scoreToAdd of handleAnswer:
\* Math.floor((BASE_POINTS + timeBonus) * difficultyMult), 0 when incorrect
\* ScoreToAdd that takes a point for an incorrect answer
ScoreToAddPenalty(isCorrect, streak, difficulty, elapsedSeconds) ==
    IF isCorrect
    THEN ((BASE_POINTS + TimeBonus(elapsedSeconds))
             * getDifficultyMultiplier(streak, difficulty)) \div 10
    ELSE 0 - 1

ScoreToAdd(isCorrect, streak, difficulty, elapsedSeconds) ==
    IF isCorrect
    THEN ((BASE_POINTS + TimeBonus(elapsedSeconds))
             * getDifficultyMultiplier(streak, difficulty)) \div 10
    ELSE 0

\* One application of the scoring functions to the inputs held in calc
Compute ==
    /\ ~calc.done
    /\ calc' = [calc EXCEPT
          !.done = TRUE,
          !.multiplier = getDifficultyMultiplier(calc.streak, calc.difficulty),
          !.timeBonus = TimeBonus(calc.elapsedSeconds),
          !.scoreToAdd = ScoreToAdd(calc.isCorrect, calc.streak, calc.difficulty,
                                    calc.elapsedSeconds)]

\* ---------------------------------------------- the client's round engine
\* The Arena component.  A handler, a timer callback or the arrival of a new
\* questions prop is one action: the state updates it makes, the render
\* that follows and the effects that render runs.
\* BOT_PERSONALITIES: the ids of the bots
BotIds == {"bot-1", "bot-2", "bot-3"}

\* The bots in the order of Object.values(BOT_PERSONALITIES)
BotOrder == << "bot-1", "bot-2", "bot-3" >>

Player(id, isBot) ==
    [id |-> id, isBot |-> isBot, score |-> 0, streak |-> 0,
     correctAnswersCount |-> 0]

\* pendingAnswerUpdate.current: null, or the staged outcome
NoUpdate == [set |-> FALSE, scoreToAdd |-> 0, streak |-> 0, correct |-> FALSE]

Update(scoreToAdd, streak, correct) ==
    [set |-> TRUE, scoreToAdd |-> scoreToAdd, streak |-> streak,
     correct |-> correct]

\* A setTimeout not armed; an armed one holds what its callback closed over
NoTimer == [armed |-> FALSE, index |-> 0, length |-> 0, players |-> <<>>]

Timer(index, length, players) ==
    [armed |-> TRUE, index |-> index, length |-> length, players |-> players]

\* onGameEnd not called; finishGame called with the players and the
\* question index of the render it closed over
NoEnd == [called |-> FALSE, players |-> <<>>, rounds |-> 0]

FinishGame(players, index) ==
    [called |-> TRUE, players |-> players, rounds |-> index + 1]

\* The bot initialisation effect adds the bots: not to a roster of several
\* players, not in Survival
\* BotsAdded that does not look at the size of the roster
BotsAddedAnyRoster(mode, players) == mode # "SURVIVAL"

BotsAdded(mode, players) == Len(players) <= 1 /\ mode # "SURVIVAL"

\* The roster after the bot initialisation effect
WithBots(mode, players) ==
    IF BotsAdded(mode, players)
    THEN players \o [i \in 1..Len(BotOrder) |-> Player(BotOrder[i], TRUE)]
    ELSE players

\* LoadMoreWanted that asks once no question is left
LoadMoreWantedLate(a) ==
    /\ a.mode \in {"SURVIVAL", "TIME_ATTACK"}
    /\ a.length > 0
    /\ a.currentQuestionIndex >= a.length

\* The load-more effect's test: Survival or Time-Attack, questions held,
\* and the current question is the last but one or later
LoadMoreWanted(a) ==
    /\ a.mode \in {"SURVIVAL", "TIME_ATTACK"}
    /\ a.length > 0
    /\ a.currentQuestionIndex >= a.length - 2

\* The load-more effect after a render: onLoadMore is called, which starts a
\* fetch unless one is in flight (loadingMore)
LoadMoreEffect(a) ==
    IF a.mounted /\ LoadMoreWanted(a)
    THEN [a EXCEPT !.loadingMore = TRUE]
    ELSE a

\* A seat of the registry's roster, as game_started and update_players
\* carry it (its transport, name and avatar play no part in the rounds)
Seat(id) == [id |-> id, score |-> 0, streak |-> 0, correctAnswersCount |-> 0]

\* update_players' listener, on one seat: ({...serverP, isBot: false})
FromServer(seat) ==
    [id |-> seat.id, isBot |-> FALSE, score |-> seat.score,
     streak |-> seat.streak, correctAnswersCount |-> seat.correctAnswersCount]

\* The roster the application passes as initialPlayers: none (the empty
\* sequence) unless it holds several players
InitialPlayers(roster) ==
    IF Len(roster) > 1 THEN [i \in 1..Len(roster) |-> FromServer(roster[i])]
    ELSE <<>>

\* The component after its first render and effects; roster is the
\* registry's roster of the room, empty in a solo session
Mounted(mode, difficulty, length, roster) ==
    LoadMoreEffect(
    [mounted |-> TRUE,
     loadingMore |-> FALSE,
     isOnline |-> Len(InitialPlayers(roster)) > 1,
     registry |-> roster,
     outbox |-> <<>>,
     inbox |-> <<>>,
     remote |-> 0,
     mode |-> mode,
     currentDifficulty |-> difficulty,
     length |-> length,
     currentQuestionIndex |-> 0,
     phase |-> "PLAYING",
     players |-> WithBots(mode,
                    IF Len(InitialPlayers(roster)) > 0
                    THEN InitialPlayers(roster)
                    ELSE << Player("me", FALSE) >>),
     selectedOption |-> "null",
     pendingAnswerUpdate |-> NoUpdate,
     isWaitingForMore |-> FALSE,
     nextQuestionTimeout |-> NoTimer,
     deathTimeout |-> NoTimer,
     gameEnd |-> NoEnd])

\* players.find(p => p.id === currentUser.id) || players[0]
PlayerState(players) ==
    IF \E i \in 1..Len(players) : players[i].id = "me"
    THEN players[CHOOSE i \in 1..Len(players) :
                    /\ players[i].id = "me"
                    /\ \A j \in 1..(i - 1) : players[j].id # "me"]
    ELSE players[1]

\* The outcome handleAnswer stages
Staged(isCorrect, playerState, difficulty, elapsedSeconds) ==
    Update(ScoreToAdd(isCorrect, playerState.streak, difficulty, elapsedSeconds),
           IF isCorrect THEN playerState.streak + 1 ELSE 0,
           isCorrect)

\* The payload of the submit_answer the client emits (the room id is the
\* one of the page's address)
SubmitAnswerMsg(option, scoreToAdd) ==
    [answerIndex |-> option, scoreToAdd |-> scoreToAdd]

\* Rejected that lets a second answer to the question through
RejectedOnlyOutsidePlaying(a) == a.phase # "PLAYING"

\* handleAnswer's early return: not PLAYING, or an option is selected
Rejected(a) == a.phase # "PLAYING" \/ a.selectedOption # "null"

\* handleAnswer: option is "right" (the question's correctAnswerIndex) or
\* "wrong"; sends tells whether the socket is connected and the address
\* names a room, so that an online client emits submit_answer
HandleAnswer(option, elapsedSeconds) ==
    /\ arena.mounted
    /\ IF Rejected(arena)
       THEN UNCHANGED arena
       ELSE LET staged == Staged(option = "right", PlayerState(arena.players),
                                 arena.currentDifficulty, elapsedSeconds)
            IN  \E sends \in BOOLEAN :
                  arena' = [arena EXCEPT
                     !.selectedOption = option,
                     !.pendingAnswerUpdate = staged,
                     !.outbox = IF arena.isOnline /\ sends
                                THEN Append(@, SubmitAnswerMsg(option,
                                                  staged.scoreToAdd))
                                ELSE @]
    /\ UNCHANGED calc

\* SurvivalDeath that ends the session on a wrong answer only
SurvivalDeathOnlyWrong(mode, update) ==
    mode = "SURVIVAL" /\ update.set /\ ~update.correct

\* processRoundResults' return value: in Survival the session is over when
\* nothing is staged or the staged answer is incorrect
SurvivalDeath(mode, update) ==
    mode = "SURVIVAL" /\ (~update.set \/ ~update.correct)

\* The points of a bot that answers correctly: its time bonus is 10
BotPoints(streak, difficulty) ==
    ((BASE_POINTS + 10) * getDifficultyMultiplier(streak, difficulty)) \div 10

\* ProcessRoundResults that keeps the streak of a human who did not answer
ProcessRoundResultsKeepStreak(players, update, botCorrect, difficulty) ==
    [i \in 1..Len(players) |->
        LET p == players[i] IN
        IF ~p.isBot
        THEN IF update.set
             THEN [p EXCEPT !.score = p.score + update.scoreToAdd,
                            !.streak = update.streak,
                            !.correctAnswersCount =
                                p.correctAnswersCount
                                + (IF update.correct THEN 1 ELSE 0)]
             ELSE p
        ELSE IF p.id \in botCorrect
             THEN [p EXCEPT !.score = p.score + BotPoints(p.streak, difficulty),
                            !.streak = p.streak + 1,
                            !.correctAnswersCount = p.correctAnswersCount + 1]
             ELSE [p EXCEPT !.streak = 0]]

\* ProcessRoundResults that leaves the human as they are
ProcessRoundResultsBotsOnly(players, update, botCorrect, difficulty) ==
    [i \in 1..Len(players) |->
        LET p == players[i] IN
        IF ~p.isBot
        THEN p
        ELSE IF p.id \in botCorrect
             THEN [p EXCEPT !.score = p.score + BotPoints(p.streak, difficulty),
                            !.streak = p.streak + 1,
                            !.correctAnswersCount = p.correctAnswersCount + 1]
             ELSE [p EXCEPT !.streak = 0]]

\* processRoundResults' setPlayers: the human takes the staged outcome, a bot
\* in botCorrect answers correctly, the other bots lose their streak
ProcessRoundResults(players, update, botCorrect, difficulty) ==
    [i \in 1..Len(players) |->
        LET p == players[i] IN
        IF ~p.isBot
        THEN IF update.set
             THEN [p EXCEPT !.score = p.score + update.scoreToAdd,
                            !.streak = update.streak,
                            !.correctAnswersCount =
                                p.correctAnswersCount
                                + (IF update.correct THEN 1 ELSE 0)]
             ELSE [p EXCEPT !.streak = 0]
        ELSE IF p.id \in botCorrect
             THEN [p EXCEPT !.score = p.score + BotPoints(p.streak, difficulty),
                            !.streak = p.streak + 1,
                            !.correctAnswersCount = p.correctAnswersCount + 1]
             ELSE [p EXCEPT !.streak = 0]]

\* Resumed that resumes on the question at hand, one short of a new one
ResumedEarly(a) ==
    IF a.isWaitingForMore /\ a.length > a.currentQuestionIndex
    THEN [a EXCEPT !.isWaitingForMore = FALSE,
                   !.currentQuestionIndex = a.currentQuestionIndex + 1,
                   !.phase = "PLAYING",
                   !.nextQuestionTimeout = NoTimer,
                   !.pendingAnswerUpdate = NoUpdate]
    ELSE a

\* Resumed that skips a question
ResumedSkipping(a) ==
    IF a.isWaitingForMore /\ a.length > a.currentQuestionIndex + 1
    THEN [a EXCEPT !.isWaitingForMore = FALSE,
                   !.currentQuestionIndex = a.currentQuestionIndex + 2,
                   !.phase = "PLAYING",
                   !.nextQuestionTimeout = NoTimer,
                   !.pendingAnswerUpdate = NoUpdate]
    ELSE a

\* Resumed that presents the same question again
ResumedSameIndex(a) ==
    IF a.isWaitingForMore /\ a.length > a.currentQuestionIndex + 1
    THEN [a EXCEPT !.isWaitingForMore = FALSE,
                   !.phase = "PLAYING",
                   !.nextQuestionTimeout = NoTimer,
                   !.pendingAnswerUpdate = NoUpdate]
    ELSE a

\* The effect on isWaitingForMore and questions.length, and the effect on
\* currentQuestionIndex that follows it: with a question past the current
\* one loaded the session resumes (selectedOption is not reset)
Resumed(a) ==
    IF a.isWaitingForMore /\ a.length > a.currentQuestionIndex + 1
    THEN [a EXCEPT !.isWaitingForMore = FALSE,
                   !.currentQuestionIndex = a.currentQuestionIndex + 1,
                   !.phase = "PLAYING",
                   !.nextQuestionTimeout = NoTimer,
                   !.pendingAnswerUpdate = NoUpdate]
    ELSE a

\* finishGame: onGameEnd takes the roster, and the parent unmounts the
\* component, whose cleanup clears nextQuestionTimeout
Finished(a, players, index) ==
    [a EXCEPT !.gameEnd = FinishGame(players, index),
              !.mounted = FALSE,
              !.nextQuestionTimeout = NoTimer]

\* The phase of the game as the application shows it: the Arena's phase
\* while the Arena is shown; once onGameEnd was called the application's
\* handleGameEnd has set GAME_OVER and the Arena is gone
EnginePhase(a) == IF a.gameEnd.called THEN "GAME_OVER" ELSE a.phase

\* handleTimeUp, called by the Timer, which runs while the phase is PLAYING
\* and the component is not waiting for questions
HandleTimeUp(botCorrect) ==
    /\ arena.mounted
    /\ arena.phase = "PLAYING"
    /\ ~arena.isWaitingForMore
    /\ arena' =
         IF arena.mode = "TIME_ATTACK"
         THEN Finished([arena EXCEPT !.phase = "GAME_OVER"],
                       arena.players, arena.currentQuestionIndex)
         ELSE LET closure == Timer(arena.currentQuestionIndex, arena.length,
                                   arena.players)
                  results == [arena EXCEPT
                      !.phase = "ROUND_RESULT",
                      !.players = ProcessRoundResults(arena.players,
                                      arena.pendingAnswerUpdate, botCorrect,
                                      arena.currentDifficulty)]
              IN  IF SurvivalDeath(arena.mode, arena.pendingAnswerUpdate)
                  THEN [results EXCEPT !.deathTimeout = closure]
                  ELSE [results EXCEPT !.nextQuestionTimeout = closure]
    /\ UNCHANGED calc

\* The callback of proceedToNextQuestion's timeout
NextQuestionTimeout ==
    /\ arena.mounted
    /\ arena.nextQuestionTimeout.armed
    /\ LET closure == arena.nextQuestionTimeout
           fired == [arena EXCEPT !.nextQuestionTimeout = NoTimer]
       IN  arena' =
             IF closure.index < closure.length - 1
             THEN LoadMoreEffect([fired EXCEPT
                     !.currentQuestionIndex = arena.currentQuestionIndex + 1,
                     !.selectedOption = "null",
                     !.phase = "PLAYING",
                     !.pendingAnswerUpdate = NoUpdate])
             ELSE IF arena.mode \in {"SURVIVAL", "TIME_ATTACK"}
                  THEN LoadMoreEffect(
                           Resumed([fired EXCEPT !.isWaitingForMore = TRUE]))
                  ELSE Finished(fired, closure.players, closure.index)
    /\ UNCHANGED calc

\* The callback of the timeout handleTimeUp sets after a Survival death; no
\* cleanup clears it
DeathTimeout ==
    /\ arena.deathTimeout.armed
    /\ arena' = Finished([arena EXCEPT !.deathTimeout = NoTimer],
                         arena.deathTimeout.players, arena.deathTimeout.index)
    /\ UNCHANGED calc

\* The fetch in flight returns: handleLoadMoreQuestions appends its
\* questions and clears loadingMore; the render that follows runs the
\* resume effect and the load-more effect
LoadMore(more) ==
    /\ arena.mounted
    /\ arena.loadingMore
    /\ arena' = LoadMoreEffect(Resumed([arena EXCEPT
                     !.length = arena.length + more,
                     !.loadingMore = FALSE]))
    /\ UNCHANGED calc

\* The application stops rendering the Arena during a session (the header's
\* profile button sets its phase to WELCOME): the cleanup effects run, which
\* clear nextQuestionTimeout and nothing else
Unmount ==
    /\ arena.mounted
    /\ arena' = [arena EXCEPT !.mounted = FALSE,
                              !.nextQuestionTimeout = NoTimer]
    /\ UNCHANGED calc

\* The index of the seat with the id in a roster, 0 if there is none
SeatIndex(roster, id) ==
    IF \E i \in 1..Len(roster) : roster[i].id = id
    THEN CHOOSE i \in 1..Len(roster) :
            /\ roster[i].id = id
            /\ \A j \in 1..(i - 1) : roster[j].id # id
    ELSE 0

\* The registry handles a submit_answer with scoreToAdd from the seat of
\* id and broadcasts the roster: the client's copy of it joins the inbox
Relayed(a, id, scoreToAdd) ==
    LET roster == [a.registry EXCEPT ![SeatIndex(a.registry, id)] =
                       ApplyAnswer(@, scoreToAdd)]
    IN  [a EXCEPT !.registry = roster, !.inbox = Append(@, roster)]

\* The registry handles the client's oldest submit_answer in flight
RelayAnswer ==
    /\ arena.isOnline
    /\ arena.outbox # <<>>
    /\ arena' = Relayed([arena EXCEPT !.outbox = Tail(@)], "me",
                        Head(arena.outbox).scoreToAdd)
    /\ UNCHANGED calc

\* The registry handles a submit_answer of the other participant
RemoteAnswer(scoreToAdd) ==
    /\ arena.isOnline
    /\ arena.remote < MaxRemote
    /\ arena' = Relayed([arena EXCEPT !.remote = @ + 1], "other", scoreToAdd)
    /\ UNCHANGED calc

\* The update_players listener, subscribed while the online component is
\* mounted, takes the oldest broadcast in flight
UpdatePlayers ==
    /\ arena.mounted
    /\ arena.isOnline
    /\ arena.inbox # <<>>
    /\ arena' = [arena EXCEPT
          !.players = [i \in 1..Len(Head(arena.inbox)) |->
                          FromServer(Head(arena.inbox)[i])],
          !.inbox = Tail(@)]
    /\ UNCHANGED calc

\* ------------------------------------------------------ fetching questions
\* What the model answers a fetch with: an error (no key, no response, no
\* JSON), or a list of returned questions
FetchOutcomes ==
    {[ok |-> FALSE, returned |-> 0]}
        \cup {[ok |-> TRUE, returned |-> n] : n \in 0..MaxReturned}

\* generateQuestions: the number of questions it resolves to. An error
\* gives the whole backup set; fewer questions than asked for are filled up
\* from the backup set (BACKUP_QUESTIONS.slice(0, missing))
GenerateQuestions(outcome, count) ==
    IF ~outcome.ok
    THEN BackupSize
    ELSE IF outcome.returned < count
         THEN outcome.returned
              + (IF count - outcome.returned < BackupSize
                 THEN count - outcome.returned ELSE BackupSize)
         ELSE outcome.returned

\* The fetch of handleLoadMoreQuestions returns with the outcome
FetchReturns(outcome) ==
    LoadMore(GenerateQuestions(outcome, LoadMoreCount))

\* ------------------------------------------------------ the bots' accuracy
\* Probabilities are held in thousandths.
\* BOT_PERSONALITIES[id].baseAccuracy
BaseAccuracy == [b \in BotIds |->
    IF b = "bot-1" THEN 600 ELSE IF b = "bot-2" THEN 880 ELSE 400]

\* (Math.random() * 0.10) - 0.05: from -0.05 up to, not including, 0.05
Jitters == (0 - MaxJitter)..(MaxJitter - 1)

\* humanScore - p.score: the values about the two thresholds
ScoreDiffs == {0 - 401, 0 - 400, 0, 300, 301}

Min(a, b) == IF a < b THEN a ELSE b

Max(a, b) == IF a > b THEN a ELSE b

\* Chance without the clamp
ChanceUnclamped(baseAccuracy, jitter, isSpecialty, scoreDiff) ==
    baseAccuracy + jitter
        + (IF isSpecialty THEN 250 ELSE 0)
        + (IF scoreDiff > 300 THEN 150 ELSE 0)
        - (IF scoreDiff < 0 - 400 THEN 100 ELSE 0)

\* The chance a bot's success is sampled with
Chance(baseAccuracy, jitter, isSpecialty, scoreDiff) ==
    LET jittered == baseAccuracy + jitter
        special == jittered + (IF isSpecialty THEN 250 ELSE 0)
        ahead == special + (IF scoreDiff > 300 THEN 150 ELSE 0)
        behind == ahead - (IF scoreDiff < 0 - 400 THEN 100 ELSE 0)
    IN  Min(980, Max(50, behind))

\* One computation of a bot's chance from the inputs held in calc
ComputeChance ==
    /\ ~calc.done
    /\ calc' = [calc EXCEPT
          !.done = TRUE,
          !.chance = Chance(BaseAccuracy[calc.bot], calc.jitter,
                            calc.isSpecialty, calc.scoreDiff)]

\* ----------------------------------------------------------- specifications
\* Every kind of message with every payload, two connections; no history
ClientIdle == UNCHANGED <<arena, calc>>

NoHist == UNCHANGED <<sent, credited, superseded, scen, hostLost>> /\ ClientIdle

Next ==
    \/ \E s \in Sockets : Connect(s) /\ NoHist
    \/ \E s \in Sockets, id \in RoomIds, pid \in StableIds, cfg \in Configs :
          CreateRoom(s, id, pid, cfg) /\ NoHist
    \/ \E s \in Sockets, r \in RoomIds, pid \in StableIds :
          JoinRoom(s, r, pid) /\ NoHist
    \/ \E s \in Sockets, r \in RoomIds, cfg \in Configs :
          UpdateConfig(s, r, cfg) /\ NoHist
    \/ \E s \in Sockets, r \in RoomIds, qs \in QuestionSets, cb \in BOOLEAN :
          StartGame(s, r, qs, cb) /\ NoHist
    \/ \E s \in Sockets, r \in RoomIds, d \in Deltas :
          SubmitAnswer(s, r, d) /\ NoHist
    \/ \E s \in Sockets : Disconnect(s) /\ NoHist

Spec == Init /\ [][Next]_vars

\* Scores: every delta, one config and one question list; the history of
\* what each seat's transport submitted
HistScore(op, s, r, x) ==
    /\ TrackSent(op, s, r, x)
    /\ TrackCredited(op, s, r, x)
    /\ UNCHANGED <<superseded, scen, hostLost>>
    /\ ClientIdle

NextScore ==
    \/ \E s \in Sockets : Connect(s) /\ HistScore("connection", s, 0, 0)
    \/ \E s \in Sockets, id \in RoomIds, pid \in StableIds :
          CreateRoom(s, id, pid, 1) /\ HistScore("create_room", s, id, pid)
    \/ \E s \in Sockets, r \in RoomIds, pid \in StableIds :
          JoinRoom(s, r, pid) /\ HistScore("join_room", s, r, pid)
    \/ \E s \in Sockets, r \in RoomIds :
          UpdateConfig(s, r, 1) /\ HistScore("update_config", s, r, 1)
    \/ \E s \in Sockets, r \in RoomIds :
          StartGame(s, r, 1, FALSE) /\ HistScore("start_game", s, r, 1)
    \/ \E s \in Sockets, r \in RoomIds, d \in Deltas :
          SubmitAnswer(s, r, d) /\ HistScore("submit_answer", s, r, d)
    \/ \E s \in Sockets : Disconnect(s) /\ HistScore("disconnect", s, 0, 0)

SpecScore == Init /\ [][NextScore]_vars

\* Host privilege: every config, one question list, no score change; the
\* history of the transports the host seat was taken from
HistHost(op, s, r, x) ==
    /\ TrackSuperseded(op, s, r, x)
    /\ UNCHANGED <<sent, credited, scen, hostLost>>
    /\ ClientIdle

NextHost ==
    \/ \E s \in Sockets : Connect(s) /\ HistHost("connection", s, 0, 0)
    \/ \E s \in Sockets, id \in RoomIds, pid \in StableIds, cfg \in Configs :
          CreateRoom(s, id, pid, cfg) /\ HistHost("create_room", s, id, pid)
    \/ \E s \in Sockets, r \in RoomIds, pid \in StableIds :
          JoinRoom(s, r, pid) /\ HistHost("join_room", s, r, pid)
    \/ \E s \in Sockets, r \in RoomIds, cfg \in Configs :
          UpdateConfig(s, r, cfg) /\ HistHost("update_config", s, r, cfg)
    \/ \E s \in Sockets, r \in RoomIds :
          StartGame(s, r, 1, FALSE) /\ HistHost("start_game", s, r, 1)
    \/ \E s \in Sockets, r \in RoomIds :
          SubmitAnswer(s, r, 0) /\ HistHost("submit_answer", s, r, 0)
    \/ \E s \in Sockets : Disconnect(s) /\ HistHost("disconnect", s, 0, 0)

SpecHost == Init /\ [][NextHost]_vars

\* Reconnection: one more connection, one config and one question list, the
\* deltas of the scenario; the scenario history
HistReconnect(op, s, r, x) ==
    /\ TrackScen(op, s, r, x)
    /\ UNCHANGED <<sent, credited, superseded, hostLost>>
    /\ ClientIdle

NextReconnect ==
    \/ \E s \in ReSockets : Connect(s) /\ HistReconnect("connection", s, 0, 0)
    \/ \E s \in ReSockets, id \in RoomIds, pid \in StableIds :
          CreateRoom(s, id, pid, 1) /\ HistReconnect("create_room", s, id, pid)
    \/ \E s \in ReSockets, r \in RoomIds, pid \in StableIds :
          JoinRoom(s, r, pid) /\ HistReconnect("join_room", s, r, pid)
    \/ \E s \in ReSockets, r \in RoomIds :
          UpdateConfig(s, r, 1) /\ HistReconnect("update_config", s, r, 1)
    \/ \E s \in ReSockets, r \in RoomIds :
          StartGame(s, r, 1, FALSE) /\ HistReconnect("start_game", s, r, 1)
    \/ \E s \in ReSockets, r \in RoomIds, d \in {0, 120} :
          SubmitAnswer(s, r, d) /\ HistReconnect("submit_answer", s, r, d)
    \/ \E s \in ReSockets : Disconnect(s) /\ HistReconnect("disconnect", s, 0, 0)

SpecReconnect == Init /\ [][NextReconnect]_vars

\* The reconnection race: as the reconnection specification, with the history
\* of the reclaimed seats
HistRace(op, s, r, x) ==
    /\ TrackReplaced(op, s, r, x)
    /\ UNCHANGED <<sent, credited, scen, hostLost>>
    /\ ClientIdle

NextRace ==
    \/ \E s \in ReSockets : Connect(s) /\ HistRace("connection", s, 0, 0)
    \/ \E s \in ReSockets, id \in RoomIds, pid \in StableIds :
          CreateRoom(s, id, pid, 1) /\ HistRace("create_room", s, id, pid)
    \/ \E s \in ReSockets, r \in RoomIds, pid \in StableIds :
          JoinRoom(s, r, pid) /\ HistRace("join_room", s, r, pid)
    \/ \E s \in ReSockets, r \in RoomIds :
          UpdateConfig(s, r, 1) /\ HistRace("update_config", s, r, 1)
    \/ \E s \in ReSockets, r \in RoomIds :
          StartGame(s, r, 1, FALSE) /\ HistRace("start_game", s, r, 1)
    \/ \E s \in ReSockets, r \in RoomIds, d \in {0, 120} :
          SubmitAnswer(s, r, d) /\ HistRace("submit_answer", s, r, d)
    \/ \E s \in ReSockets : Disconnect(s) /\ HistRace("disconnect", s, 0, 0)

SpecRace == Init /\ [][NextRace]_vars

\* Several rooms, each created under stable id 1 with the first config, every
\* config in update_config, one question list and one scoring answer; the
\* messages the frame property is about and the ones that set rooms up
NextFrame ==
    \/ \E s \in Sockets : Connect(s) /\ NoHist
    \/ \E s \in Sockets, id \in ManyRoomIds : CreateRoom(s, id, 1, 1) /\ NoHist
    \/ \E s \in Sockets, r \in ManyRoomIds, pid \in StableIds :
          JoinRoom(s, r, pid) /\ NoHist
    \/ \E s \in Sockets, r \in ManyRoomIds, cfg \in Configs :
          UpdateConfig(s, r, cfg) /\ NoHist
    \/ \E s \in Sockets, r \in ManyRoomIds : StartGame(s, r, 1, FALSE) /\ NoHist
    \/ \E s \in Sockets, r \in ManyRoomIds :
          submits = 0 /\ SubmitAnswer(s, r, 120) /\ NoHist

SpecFrame == Init /\ [][NextFrame]_vars

\* The player ids a join can carry in the capacity specification: the ids
\* seated in the room and one id that is not (the smallest).  The handlers
\* only compare player ids for equality, so one unseated id stands for all.
JoinIds(r) ==
    IF r \in DOMAIN rooms
    THEN LET seated == {rooms[r].players[i].id : i \in 1..Len(rooms[r].players)}
             free == FullIds \ seated
         IN seated \cup {p \in free : \A q \in free : p <= q}
    ELSE {1}

\* Capacity: enough player ids to fill a room and be turned away; no history
NextFull ==
    \/ \E s \in Sockets : Connect(s) /\ NoHist
    \/ \E s \in Sockets, id \in RoomIds : CreateRoom(s, id, 1, 1) /\ NoHist
    \/ \E s \in Sockets, r \in RoomIds :
          \E pid \in JoinIds(r) : JoinRoom(s, r, pid) /\ NoHist
    \/ \E s \in Sockets, r \in RoomIds : UpdateConfig(s, r, 1) /\ NoHist
    \/ \E s \in Sockets, r \in RoomIds : StartGame(s, r, 1, FALSE) /\ NoHist
    \/ \E s \in Sockets, r \in RoomIds : SubmitAnswer(s, r, 0) /\ NoHist
    \/ \E s \in Sockets : Disconnect(s) /\ NoHist

SpecFull == Init /\ [][NextFull]_vars

\* Host loss: three connections, one config and one question list, the
\* deltas of the scenario; the history of the hosts lost in a game
HistHostLoss(op, s, r, x) ==
    /\ TrackHostLost(op, s, r, x)
    /\ UNCHANGED <<sent, credited, superseded, scen>>
    /\ ClientIdle

NextHostLoss ==
    \/ \E s \in ReSockets : Connect(s) /\ HistHostLoss("connection", s, 0, 0)
    \/ \E s \in ReSockets, id \in RoomIds, pid \in StableIds :
          CreateRoom(s, id, pid, 1) /\ HistHostLoss("create_room", s, id, pid)
    \/ \E s \in ReSockets, r \in RoomIds, pid \in StableIds :
          JoinRoom(s, r, pid) /\ HistHostLoss("join_room", s, r, pid)
    \/ \E s \in ReSockets, r \in RoomIds :
          UpdateConfig(s, r, 1) /\ HistHostLoss("update_config", s, r, 1)
    \/ \E s \in ReSockets, r \in RoomIds :
          StartGame(s, r, 1, FALSE) /\ HistHostLoss("start_game", s, r, 1)
    \/ \E s \in ReSockets, r \in RoomIds, d \in {0, 120} :
          SubmitAnswer(s, r, d) /\ HistHostLoss("submit_answer", s, r, d)
    \/ \E s \in ReSockets : Disconnect(s) /\ HistHostLoss("disconnect", s, 0, 0)

SpecHostLoss == Init /\ [][NextHostLoss]_vars

\* Several rooms: two room ids, one config and one question list, no score
\* change; no history
NextRooms ==
    \/ \E s \in Sockets : Connect(s) /\ NoHist
    \/ \E s \in Sockets, id \in ManyRoomIds, pid \in StableIds :
          CreateRoom(s, id, pid, 1) /\ NoHist
    \/ \E s \in Sockets, r \in ManyRoomIds, pid \in StableIds :
          JoinRoom(s, r, pid) /\ NoHist
    \/ \E s \in Sockets, r \in ManyRoomIds : UpdateConfig(s, r, 1) /\ NoHist
    \/ \E s \in Sockets, r \in ManyRoomIds : StartGame(s, r, 1, FALSE) /\ NoHist
    \/ \E s \in Sockets, r \in ManyRoomIds : SubmitAnswer(s, r, 0) /\ NoHist
    \/ \E s \in Sockets : Disconnect(s) /\ NoHist

SpecRooms == Init /\ [][NextRooms]_vars

\* The server's state and the histories stay as they are
ServerIdle ==
    UNCHANGED <<rooms, channel, sock, emitted, last, submits, sent, credited,
                superseded, scen, hostLost>>

\* Scoring: the scoring functions applied once to every input of the bounds
InitScoring ==
    /\ ServerInit
    /\ arena = NoArena
    /\ calc \in [done : {FALSE}, streak : Streaks, difficulty : Difficulties,
                 elapsedSeconds : ElapsedSeconds, isCorrect : BOOLEAN,
                 multiplier : {0}, timeBonus : {0}, scoreToAdd : {0}]

NextScoring == Compute /\ ServerIdle /\ UNCHANGED arena

SpecScoring == InitScoring /\ [][NextScoring]_vars

\* Accuracy: a bot's chance computed once for every input of the bounds
InitAccuracy ==
    /\ ServerInit
    /\ arena = NoArena
    /\ calc \in [done : {FALSE}, bot : BotIds, jitter : Jitters,
                 isSpecialty : BOOLEAN, scoreDiff : ScoreDiffs, chance : {0}]

NextAccuracy == ComputeChance /\ ServerIdle /\ UNCHANGED arena

SpecAccuracy == InitAccuracy /\ [][NextAccuracy]_vars

\* The answer times of a session: at once, half way, at the time limit
ArenaElapsed == {e \in ElapsedSeconds : e % 5 = 0}

\* A solo session of the Arena, in every mode and at every difficulty
InitArena ==
    /\ ServerInit
    /\ calc = NoCalc
    /\ \E mode \in Modes, difficulty \in Difficulties, length \in 1..MaxQuestions :
          arena = Mounted(mode, difficulty, length, <<>>)

NextArena ==
    \/ \E option \in {"right", "wrong"}, e \in ArenaElapsed :
          HandleAnswer(option, e) /\ ServerIdle
    \/ \E botCorrect \in SUBSET BotIds : HandleTimeUp(botCorrect) /\ ServerIdle
    \/ NextQuestionTimeout /\ ServerIdle
    \/ DeathTimeout /\ ServerIdle
    \/ \E more \in 1..2 :
          arena.length + more <= MaxQuestions /\ LoadMore(more) /\ ServerIdle

SpecArena == InitArena /\ [][NextArena]_vars

\* A session of the Arena in an online room of two participants, in every
\* mode and at every difficulty, with the registry and the messages in
\* flight between the two
InitOnline ==
    /\ ServerInit
    /\ calc = NoCalc
    /\ \E mode \in Modes, difficulty \in Difficulties, length \in 1..MaxQuestions :
          arena = Mounted(mode, difficulty, length,
                          << Seat("other"), Seat("me") >>)

NextOnline ==
    \/ \E option \in {"right", "wrong"}, e \in ArenaElapsed :
          HandleAnswer(option, e) /\ ServerIdle
    \/ \E botCorrect \in SUBSET BotIds : HandleTimeUp(botCorrect) /\ ServerIdle
    \/ NextQuestionTimeout /\ ServerIdle
    \/ DeathTimeout /\ ServerIdle
    \/ \E more \in 1..2 :
          arena.length + more <= MaxQuestions /\ LoadMore(more) /\ ServerIdle
    \/ RelayAnswer /\ ServerIdle
    \/ \E scoreToAdd \in {0, BASE_POINTS} : RemoteAnswer(scoreToAdd) /\ ServerIdle
    \/ UpdatePlayers /\ ServerIdle

SpecOnline == InitOnline /\ [][NextOnline]_vars

\* A solo session that the application may tear down at any moment
NextTeardown ==
    \/ \E option \in {"right", "wrong"}, e \in ArenaElapsed :
          HandleAnswer(option, e) /\ ServerIdle
    \/ \E botCorrect \in SUBSET BotIds : HandleTimeUp(botCorrect) /\ ServerIdle
    \/ NextQuestionTimeout /\ ServerIdle
    \/ DeathTimeout /\ ServerIdle
    \/ \E more \in 1..2 :
          arena.length + more <= MaxQuestions /\ LoadMore(more) /\ ServerIdle
    \/ Unmount /\ ServerIdle

SpecTeardown == InitArena /\ [][NextTeardown]_vars

\* Solo sessions of the open-ended modes with the fetches of the
\* application, each of which returns in the end
\* Solo sessions and online rooms together
InitSessions == InitArena \/ InitOnline

SpecSessions == InitSessions /\ [][NextOnline]_vars

InitFetch ==
    /\ ServerInit
    /\ calc = NoCalc
    /\ \E mode \in {"SURVIVAL", "TIME_ATTACK"}, difficulty \in Difficulties,
          length \in 1..MaxQuestions :
          arena = Mounted(mode, difficulty, length, <<>>)

SomeFetchReturns ==
    \E outcome \in FetchOutcomes :
        /\ arena.length + GenerateQuestions(outcome, LoadMoreCount) <= MaxHeld
        /\ FetchReturns(outcome)
        /\ ServerIdle

NextFetch ==
    \/ \E option \in {"right", "wrong"}, e \in ArenaElapsed :
          HandleAnswer(option, e) /\ ServerIdle
    \/ \E botCorrect \in SUBSET BotIds : HandleTimeUp(botCorrect) /\ ServerIdle
    \/ NextQuestionTimeout /\ ServerIdle
    \/ DeathTimeout /\ ServerIdle
    \/ SomeFetchReturns

SpecFetch == InitFetch /\ [][NextFetch]_vars /\ WF_vars(SomeFetchReturns)

\* ------------------------------------------------------------------- claims
Seats(r) == 1..Len(rooms[r].players)

\* The streak rule of submit_answer on the seat at index i of room r
StreakRule(r, i, d) ==
    LET before == rooms[r].players[i]
        after == rooms'[r].players[i]
    IN IF d > 0
       THEN /\ after.streak = before.streak + 1
            /\ after.correctAnswersCount = before.correctAnswersCount + 1
       ELSE after.streak = 0

ScoreIsSent ==
    \A r \in DOMAIN rooms : \A i \in Seats(r) :
        rooms[r].players[i].score = sent[r][rooms[r].players[i].id]

ScoreIsCredited ==
    \A r \in DOMAIN rooms : \A i \in Seats(r) :
        rooms[r].players[i].score = credited[r][rooms[r].players[i].id]

\* C1 as stated: after every step each seat's score is the sum of the deltas
\* submitted from that seat's transport, and a submit_answer with delta <= 0
\* leaves the streak of every seat with the sender's transport at 0 (delta
\* > 0: streak and correct count one higher).
C1_AsStated ==
    [][/\ ScoreIsSent'
       /\ \A s \in Sockets, r \in DOMAIN rooms, d \in Deltas :
            SubmitAnswer(s, r, d) =>
              \A i \in Seats(r) :
                rooms[r].players[i].socketId = s => StreakRule(r, i, d)]_vars

\* C1, amended: after every step each seat's score is the sum of the deltas
\* of the submit_answer messages the registry resolved to that seat (the
\* first seat of the roster with the sender's transport id), and a
\* submit_answer with delta <= 0 leaves the streak of the seat it is resolved
\* to at 0 (delta > 0: streak and correct count one higher); no other seat's
\* score, streak or correct count changes.
C1_ScoreIsSumOfCredited ==
    [][/\ ScoreIsCredited'
       /\ \A s \in Sockets, r \in DOMAIN rooms, d \in Deltas :
            SubmitAnswer(s, r, d) /\ FindIndexBySocket(rooms[r].players, s) # 0 =>
              /\ StreakRule(r, FindIndexBySocket(rooms[r].players, s), d)
              /\ \A i \in Seats(r) :
                   i # FindIndexBySocket(rooms[r].players, s) =>
                     rooms'[r].players[i] = rooms[r].players[i]]_vars

\* C1 witness: a seat that was credited +120 and then -1 (score 119, streak
\* back at 0) beside another seat on another transport
C1_Witness ==
    /\ last.op = "submit_answer"
    /\ \E r \in DOMAIN rooms : \E i, j \in Seats(r) :
          /\ rooms[r].players[i].socketId # rooms[r].players[j].socketId
          /\ rooms[r].players[i].socketId = last.sock
          /\ rooms[r].players[i].score = 119
          /\ rooms[r].players[i].streak = 0
          /\ rooms[r].players[i].correctAnswersCount = 1

\* The ids of a roster, in order
IdsOf(players) == [i \in 1..Len(players) |-> players[i].id]

\* The one emission of a rejected join
Rejection(s, err) == << Emit("error", {s}, err) >>

\* C2: a join_room for a room in PLAYING succeeds exactly when the player id
\* is seated (the seat gets the new transport, the roster keeps its ids and
\* order); otherwise it is answered GameAlreadyStarted, whatever the roster
\* size, and the room is unchanged.
C2_JoinWhilePlaying ==
    [][\A s \in {last'.sock} \cap Sockets, r \in {last'.room} \cap DOMAIN rooms,
          pid \in FullIds :
          rooms[r].phase = "PLAYING" /\ JoinRoom(s, r, pid) =>
            IF \E i \in Seats(r) : rooms[r].players[i].id = pid
            THEN /\ \A k \in 1..Len(emitted') : emitted'[k].ev # "error"
                 /\ IdsOf(rooms'[r].players) = IdsOf(rooms[r].players)
                 /\ \A i \in Seats(r) :
                      rooms[r].players[i].id = pid =>
                        rooms'[r].players[i].socketId = s
            ELSE /\ emitted' = Rejection(s, ErrStarted)
                 /\ rooms' = rooms]_vars

\* C2 witness: a join turned away with GameAlreadyStarted from a room that
\* holds 8 seats
C2_Witness ==
    /\ last.op = "join_room"
    /\ last.room \in DOMAIN rooms
    /\ rooms[last.room].phase = "PLAYING"
    /\ Len(rooms[last.room].players) = 8
    /\ emitted = Rejection(last.sock, ErrStarted)

\* The old transports of the host seat that are not the host now
C3_Old(r) == superseded[r] \ {rooms[r].hostId}

\* What C3 says of a join: a join_room of a player id whose seat has the
\* room's host transport id makes the joining transport the host
C3_Transfer ==
    \A s \in Sockets, r \in DOMAIN rooms, pid \in StableIds :
        /\ JoinRoom(s, r, pid)
        /\ \E i \in Seats(r) : /\ rooms[r].players[i].id = pid
                               /\ rooms[r].players[i].socketId = rooms[r].hostId
        => rooms'[r].hostId = s

\* What C3 says of an update_config from transport t: it is rejected
C3_Rejected(t, r) ==
    \A cfg \in Configs :
        UpdateConfig(t, r, cfg) => rooms' = rooms /\ emitted' = <<>>

\* C3 as stated: the host transfer, and every later update_config from a
\* transport the host seat was taken from is rejected.
C3_AsStated ==
    [][/\ C3_Transfer
       /\ \A r \in DOMAIN rooms : \A t \in superseded[r] : C3_Rejected(t, r)]_vars

\* C3, amended: the host transfer, and an update_config from a transport the
\* host seat was taken from is rejected for as long as that transport has not
\* been made the host again.
C3_HostTransfer ==
    [][/\ C3_Transfer
       /\ \A r \in DOMAIN rooms : \A t \in C3_Old(r) : C3_Rejected(t, r)]_vars

\* C3 witness: an update_config from the old, still open transport of the
\* host seat has just been ignored
C3_Witness ==
    /\ last.op = "update_config"
    /\ last.room \in DOMAIN rooms
    /\ last.sock \in C3_Old(last.room)
    /\ sock[last.sock] = "open"
    /\ emitted = <<>>

\* The roster of the scenario's room shows player p with this score and streak
C4_Shows(p, score, streak) ==
    /\ Seated(rooms[scen.r], p)
    /\ SeatOf(rooms[scen.r], p).score = score
    /\ SeatOf(rooms[scen.r], p).streak = streak

\* C4 as stated: after the two submissions the roster shows alice 120/1 and
\* bob 0/0, and after alice's disconnect and join from a new transport her
\* score is 120 and the new transport is the host.
C4_AsStated ==
    /\ scen.stage = 4 =>
          C4_Shows(Cast.alice, 120, 1) /\ C4_Shows(Cast.bob, 0, 0)
    /\ scen.stage = 6 =>
          /\ Seated(rooms[scen.r], Cast.alice)
          /\ SeatOf(rooms[scen.r], Cast.alice).score = 120
          /\ rooms[scen.r].hostId = scen.n

\* C4, amended: the same, for a game that alice started before her transport
\* disconnected.
C4_Scenario ==
    /\ scen.stage = 4 =>
          C4_Shows(Cast.alice, 120, 1) /\ C4_Shows(Cast.bob, 0, 0)
    /\ scen.stage = 6 /\ rooms[scen.r].phase = "PLAYING" =>
          /\ Seated(rooms[scen.r], Cast.alice)
          /\ SeatOf(rooms[scen.r], Cast.alice).score = 120
          /\ SeatOf(rooms[scen.r], Cast.alice).socketId = scen.n
          /\ rooms[scen.r].hostId = scen.n

\* C4 witness: the scenario run to its end in a started game
C4_Witness ==
    /\ scen.stage = 6
    /\ rooms[scen.r].phase = "PLAYING"
    /\ sock[scen.a] = "closed"
    /\ scen.n \notin {scen.a, scen.b}

\* C5: every registered room has between 1 and 8 seats.
C5_RosterSize ==
    \A r \in DOMAIN rooms :
        Len(rooms[r].players) >= 1 /\ Len(rooms[r].players) <= 8

\* C5 witness: a join has just filled a room to 8 seats
C5_Witness ==
    /\ last.op = "join_room"
    /\ last.room \in DOMAIN rooms
    /\ Len(rooms[last.room].players) = 8
    /\ Len(emitted) > 0
    /\ emitted[1].ev = "update_players"
    /\ Len(emitted[1].data) = 8

\* C6: a join_room for an unregistered room id is answered RoomNotFound, one
\* for a lobby of 8 seats by a player id that is not seated RoomFull; either
\* way the error goes to the caller alone and no room and no channel
\* changes.  A seated player id is let into a room of 8 seats, which keeps
\* its 8 seats.
C6_RejectedJoin ==
    [][\A s \in {last'.sock} \cap Sockets, r \in {last'.room} \cap RoomIds,
          pid \in FullIds :
          JoinRoom(s, r, pid) =>
            IF r \notin DOMAIN rooms
            THEN /\ emitted' = Rejection(s, ErrNotFound)
                 /\ UNCHANGED <<rooms, channel>>
            ELSE IF Len(rooms[r].players) = 8
            THEN IF \E i \in Seats(r) : rooms[r].players[i].id = pid
                 THEN /\ \A k \in 1..Len(emitted') : emitted'[k].ev # "error"
                      /\ IdsOf(rooms'[r].players) = IdsOf(rooms[r].players)
                      /\ \A i \in Seats(r) :
                           rooms[r].players[i].id = pid =>
                             rooms'[r].players[i].socketId = s
                 ELSE rooms[r].phase = "LOBBY" =>
                        /\ emitted' = Rejection(s, ErrFull)
                        /\ UNCHANGED <<rooms, channel>>
            ELSE TRUE]_vars

\* C6 witness: a join turned away with RoomFull from a lobby of 8 seats
C6_Witness ==
    /\ last.op = "join_room"
    /\ last.room \in DOMAIN rooms
    /\ rooms[last.room].phase = "LOBBY"
    /\ Len(rooms[last.room].players) = 8
    /\ emitted = Rejection(last.sock, ErrFull)

\* The open transports of the seats of room r: its members
Members(r) ==
    {rooms[r].players[i].socketId : i \in Seats(r)}
        \cap {t \in AllSockets : sock[t] = "open"}

C8_QuestionsFrozen ==
    [][\A r \in DOMAIN rooms :
          rooms[r].phase = "PLAYING" /\ r \in DOMAIN rooms' =>
            rooms'[r].questions = rooms[r].questions]_vars

\* C9: an update_config from the room's host transport replaces the room's
\* config and is relayed to every other member and not to the sender; one
\* from any other transport changes nothing and relays nothing.
C9_UpdateConfig ==
    [][\A s \in Sockets, r \in DOMAIN rooms, cfg \in Configs :
          UpdateConfig(s, r, cfg) =>
            IF rooms[r].hostId = s
            THEN /\ rooms'[r] = [rooms[r] EXCEPT !.config = cfg]
                 /\ Len(emitted') = 1
                 /\ emitted'[1].ev = "room_config_updated"
                 /\ emitted'[1].data = cfg
                 /\ Members(r) \ {s} \subseteq emitted'[1].to
                 /\ s \notin emitted'[1].to
            ELSE rooms' = rooms /\ emitted' = <<>>]_vars

\* C9 witness: the host's new config has just been relayed to the other
\* member
C9_Witness ==
    /\ last.op = "update_config"
    /\ last.room \in DOMAIN rooms
    /\ rooms[last.room].hostId = last.sock
    /\ Len(emitted) = 1
    /\ emitted[1].data = rooms[last.room].config
    /\ emitted[1].to # {}
    /\ emitted[1].to = Members(last.room) \ {last.sock}

\* The roster without its seat at index i
Without(players, i) ==
    SubSeq(players, 1, i - 1) \o SubSeq(players, i + 1, Len(players))

\* C10: the disconnect of transport t removes, from every room in LOBBY
\* where t holds a seat, a seat of t and broadcasts the new roster; the room is
\* deleted when the roster is empty, else its host becomes the transport of
\* the new first seat when the removed seat's transport was the host, and
\* stays otherwise.
C10_Disconnect ==
    [][\A t \in Sockets :
          Disconnect(t) =>
            \A r \in DOMAIN rooms :
              (/\ rooms[r].phase = "LOBBY"
               /\ \E i \in Seats(r) : rooms[r].players[i].socketId = t)
              => \E i \in Seats(r) :
                 LET rest == Without(rooms[r].players, i) IN
                 /\ rooms[r].players[i].socketId = t
                 /\ \E k \in 1..Len(emitted') :
                       /\ emitted'[k].ev = "update_players"
                       /\ emitted'[k].data = rest
                       /\ emitted'[k].to = channel[r] \ {t}
                 /\ IF rest = <<>>
                    THEN r \notin DOMAIN rooms'
                    ELSE /\ r \in DOMAIN rooms'
                         /\ rooms'[r].players = rest
                         /\ rooms'[r].hostId =
                              IF rooms[r].hostId = t THEN rest[1].socketId
                              ELSE rooms[r].hostId]_vars

\* C10 witness: a transport has disconnected from a lobby, the roster
\* without its seat has been broadcast to the member left, who is the host
C10_Witness ==
    /\ last.op = "disconnect"
    /\ sock[last.sock] = "closed"
    /\ \E r \in DOMAIN rooms :
          /\ rooms[r].phase = "LOBBY"
          /\ \A i \in Seats(r) : rooms[r].players[i].socketId # last.sock
          /\ emitted = << Emit("update_players", channel[r], rooms[r].players) >>
          /\ channel[r] # {}
          /\ rooms[r].hostId = rooms[r].players[1].socketId

\* Transport t holds a seat of room r
HasSeat(r, t) == \E i \in Seats(r) : rooms[r].players[i].socketId = t

\* C11: the disconnect of transport t leaves every room in PLAYING as it is
\* (roster with the seat of t, scores, streaks, correct counts, host), and
\* broadcasts no roster when every room t is seated in is in PLAYING.
C11_DisconnectWhilePlaying ==
    [][\A t \in Sockets :
          Disconnect(t) =>
            /\ \A r \in DOMAIN rooms :
                  rooms[r].phase = "PLAYING" =>
                    r \in DOMAIN rooms' /\ rooms'[r] = rooms[r]
            /\ (\A r \in DOMAIN rooms : HasSeat(r, t) => rooms[r].phase = "PLAYING")
                  => emitted' = <<>>]_vars

\* C11 witness: the host transport of a room in PLAYING has disconnected;
\* its seat is in the roster and nothing was broadcast
C11_Witness ==
    /\ last.op = "disconnect"
    /\ sock[last.sock] = "closed"
    /\ emitted = <<>>
    /\ \E r \in DOMAIN rooms :
          /\ rooms[r].phase = "PLAYING"
          /\ rooms[r].hostId = last.sock
          /\ HasSeat(r, last.sock)
          /\ Len(rooms[r].players) = 2

\* C12: a submit_answer for an unregistered room id, or from a transport
\* that holds no seat of the room, changes no room and emits nothing.
C12_SubmitNoOp ==
    [][\A s \in Sockets, r \in RoomIds, d \in Deltas :
          SubmitAnswer(s, r, d) /\ (r \notin DOMAIN rooms \/ ~HasSeat(r, s))
            => rooms' = rooms /\ emitted' = <<>>]_vars

\* C12 witness: a submit_answer from the old transport of a seat of a
\* started room, reclaimed by a join from another transport, has been
\* ignored (the old transport is still in the room's channel)
C12_Witness ==
    /\ last.op = "submit_answer"
    /\ sock[last.sock] = "open"
    /\ last.room \in DOMAIN rooms
    /\ rooms[last.room].phase = "PLAYING"
    /\ ~HasSeat(last.room, last.sock)
    /\ last.sock \in channel[last.room]
    /\ emitted = <<>>

\* C13: a join_room of a seated player id gives the seat the joining
\* transport; in PLAYING it sends game_started (room id, stored question
\* list, roster, config) to the joining transport, in LOBBY it sends no
\* game_started.
C13_RejoinReplay ==
    [][\A s \in Sockets, r \in DOMAIN rooms, pid \in StableIds :
          JoinRoom(s, r, pid) /\ (\E i \in Seats(r) : rooms[r].players[i].id = pid)
            => /\ \A i \in Seats(r) :
                    rooms[r].players[i].id = pid /\
                    (\A j \in 1..(i - 1) : rooms[r].players[j].id # pid)
                      => rooms'[r].players[i].socketId = s
               /\ IF rooms[r].phase = "PLAYING"
                  THEN \E k \in 1..Len(emitted') :
                          emitted'[k] =
                            Emit("game_started", {s},
                                 [roomId |-> r,
                                  questions |-> rooms[r].questions,
                                  players |-> rooms'[r].players,
                                  config |-> rooms[r].config])
                  ELSE \A k \in 1..Len(emitted') :
                          emitted'[k].ev # "game_started"]_vars

\* C13 witness: a seat of a started room has just been reclaimed and the
\* second question list replayed to the joining transport alone
C13_Witness ==
    /\ last.op = "join_room"
    /\ last.room \in DOMAIN rooms
    /\ rooms[last.room].phase = "PLAYING"
    /\ Len(emitted) = 3
    /\ emitted[3].ev = "game_started"
    /\ emitted[3].to = {last.sock}
    /\ emitted[3].data.questions = rooms[last.room].questions
    /\ rooms[last.room].questions = NumQuestionSets
    /\ Len(rooms[last.room].players) = 2

\* C14: a create_room registers a room under an id no registered room has
\* and leaves every registered room as it is; the new room is in LOBBY with
\* one seat, the caller's, at score 0 and streak 0, and the caller's
\* transport as host.
C14_CreateRoom ==
    [][\A s \in Sockets, id \in ManyRoomIds, pid \in StableIds, cfg \in Configs :
          CreateRoom(s, id, pid, cfg) =>
            /\ id \notin DOMAIN rooms
            /\ DOMAIN rooms' = DOMAIN rooms \cup {id}
            /\ \A q \in DOMAIN rooms : rooms'[q] = rooms[q]
            /\ rooms'[id].phase = "LOBBY"
            /\ rooms'[id].hostId = s
            /\ Len(rooms'[id].players) = 1
            /\ rooms'[id].players[1].id = pid
            /\ rooms'[id].players[1].socketId = s
            /\ rooms'[id].players[1].score = 0
            /\ rooms'[id].players[1].streak = 0]_vars

\* C14 witness: a room has just been created beside a started room of two
\* seats
C14_Witness ==
    /\ last.op = "create_room"
    /\ last.room \in DOMAIN rooms
    /\ rooms[last.room].phase = "LOBBY"
    /\ Len(rooms[last.room].players) = 1
    /\ rooms[last.room].hostId = last.sock
    /\ \E q \in DOMAIN rooms \ {last.room} :
          rooms[q].phase = "PLAYING" /\ Len(rooms[q].players) = 2

\* C15: a room leaves the registry only in the disconnect of the transport
\* that holds its one seat.
C15_DeletedOnlyWhenEmpty ==
    [][\A r \in DOMAIN rooms :
          r \notin DOMAIN rooms' =>
            \E t \in Sockets :
               /\ Disconnect(t)
               /\ Len(rooms[r].players) = 1
               /\ rooms[r].players[1].socketId = t]_vars

\* C15 witness: a disconnect has emptied and deleted one room (its empty
\* roster was broadcast) while a started room stays registered
C15_Witness ==
    /\ last.op = "disconnect"
    /\ Len(emitted) = 1
    /\ emitted[1].ev = "update_players"
    /\ emitted[1].data = <<>>
    /\ Cardinality(DOMAIN rooms) = 1
    /\ \E q \in DOMAIN rooms :
          rooms[q].phase = "PLAYING" /\ HasSeat(q, last.sock)

\* What C16 says of a submit_answer from a seated transport: it is accepted,
\* a seat of the transport gets the delta and the roster is broadcast
C16_SubmitAccepted(r) ==
    \A s \in ReSockets, d \in Deltas :
        SubmitAnswer(s, r, d) /\ HasSeat(r, s) =>
          /\ \E i \in Seats(r) :
                /\ rooms[r].players[i].socketId = s
                /\ rooms'[r].players[i].score = rooms[r].players[i].score + d
          /\ emitted' = << Emit("update_players", channel[r], rooms'[r].players) >>

\* What C16 says of the host-only messages: none is accepted
C16_HostOnlyRejected(r) ==
    /\ \A s \in ReSockets, cfg \in Configs :
          UpdateConfig(s, r, cfg) => rooms' = rooms /\ emitted' = <<>>
    /\ \A s \in ReSockets, qs \in QuestionSets, cb \in BOOLEAN :
          StartGame(s, r, qs, cb) =>
            /\ rooms' = rooms
            /\ \A k \in 1..Len(emitted') : emitted'[k].ev # "game_started"

\* What C16 says of the host privilege: the disconnect of the host of a
\* started room, and every step after it but a join_room that makes the
\* joining transport the host, leaves the host transport id as it is
C16_NotReassigned(r) ==
    rooms'[r].hostId # rooms[r].hostId =>
        last'.op = "join_room" /\ rooms'[r].hostId = last'.sock

\* C16 as stated: once the host transport of a started room has
\* disconnected, submit_answer from a seated transport is accepted and
\* update_config and start_game are never accepted again.
C16_AsStated ==
    [][\A r \in DOMAIN rooms \cap DOMAIN rooms' :
          /\ hostLost'[r] # 0 => C16_NotReassigned(r)
          /\ hostLost[r] # 0 => C16_SubmitAccepted(r) /\ C16_HostOnlyRejected(r)]_vars

\* C16, amended: the same, update_config and start_game being rejected for
\* as long as no join_room has made another transport the host.
C16_HostLoss ==
    [][\A r \in DOMAIN rooms \cap DOMAIN rooms' :
          /\ hostLost'[r] # 0 => C16_NotReassigned(r)
          /\ hostLost[r] # 0 => C16_SubmitAccepted(r)
          /\ hostLost[r] # 0 /\ rooms[r].hostId = hostLost[r]
                => C16_HostOnlyRejected(r)]_vars

\* C16 witness: in a started room whose host transport has disconnected, a
\* submission of the other seat has just been credited, and the host is
\* still the disconnected transport
C16_Witness ==
    /\ last.op = "submit_answer"
    /\ last.room \in DOMAIN rooms
    /\ hostLost[last.room] # 0
    /\ rooms[last.room].hostId = hostLost[last.room]
    /\ sock[rooms[last.room].hostId] = "closed"
    /\ Len(emitted) = 1
    /\ \E i \in Seats(last.room) :
          /\ rooms[last.room].players[i].socketId = last.sock
          /\ rooms[last.room].players[i].score = 120

\* The difficulties from the lowest to the highest
C20_Rank(d) ==
    IF d = "ROOKIE" THEN 0 ELSE IF d = "PRO" THEN 1
    ELSE IF d = "ALL_STAR" THEN 2 ELSE 3

\* C20: the multiplier computed for a streak and a difficulty is greater
\* than the one of every lower difficulty at the same streak; at one
\* difficulty the multiplier of streak 6 is greater than that of streak 3,
\* which is greater than that of streak 0; the multiplier is that of streak
\* 0 plus 0.2 once streak > 2 plus 0.5 once streak > 5 (in tenths).
C20_MultiplierMonotone ==
    calc.done =>
      /\ \A d \in Difficulties :
            C20_Rank(d) < C20_Rank(calc.difficulty) =>
              getDifficultyMultiplier(calc.streak, d) < calc.multiplier
      /\ calc.streak = 6 =>
            /\ calc.multiplier > getDifficultyMultiplier(3, calc.difficulty)
            /\ getDifficultyMultiplier(3, calc.difficulty)
                  > getDifficultyMultiplier(0, calc.difficulty)
      /\ calc.multiplier =
            getDifficultyMultiplier(0, calc.difficulty)
              + (IF calc.streak > 2 THEN 2 ELSE 0)
              + (IF calc.streak > 5 THEN 5 ELSE 0)

\* C20 witness: the multiplier of streak 6 at HALL_OF_FAME has been
\* computed: 2.0 + 0.2 + 0.5
C20_Witness ==
    /\ calc.done
    /\ calc.streak = 6
    /\ calc.difficulty = "HALL_OF_FAME"
    /\ calc.multiplier = 27

\* The human's staged outcome is a correct answer
AnsweredCorrectly == arena.pendingAnswerUpdate.set /\ arena.pendingAnswerUpdate.correct

\* The Survival run is over: the end of the game is scheduled or has happened
RunOver == arena.deathTimeout.armed \/ arena.gameEnd.called

\* No bot of the roster has a score
C17_NoBotScore ==
    arena.mounted /\ arena.mode = "SURVIVAL" =>
        \A i \in 1..Len(arena.players) :
            arena.players[i].isBot => arena.players[i].score = 0

\* The round that ends when the timer expires, and what follows it
C17_Round ==
    arena.mode = "SURVIVAL" =>
        /\ \A botCorrect \in SUBSET BotIds :
              HandleTimeUp(botCorrect) =>
                  /\ arena'.phase = "ROUND_RESULT"
                  /\ arena'.currentQuestionIndex = arena.currentQuestionIndex
                  /\ IF AnsweredCorrectly
                     THEN arena'.nextQuestionTimeout.armed /\ ~RunOver'
                     ELSE arena'.deathTimeout.armed
                          /\ ~arena'.nextQuestionTimeout.armed
        /\ NextQuestionTimeout =>
              \/ /\ arena'.currentQuestionIndex = arena.currentQuestionIndex + 1
                 /\ arena'.phase = "PLAYING"
              \/ /\ arena'.isWaitingForMore
                 /\ arena.length = arena.currentQuestionIndex + 1
                 /\ ~RunOver'
        /\ \A more \in 1..2 :
              LoadMore(more) /\ arena.isWaitingForMore =>
                  /\ arena'.currentQuestionIndex = arena.currentQuestionIndex + 1
                  /\ arena'.phase = "PLAYING"
        /\ RunOver =>
              /\ RunOver'
              /\ arena'.currentQuestionIndex = arena.currentQuestionIndex
              /\ arena'.phase = "ROUND_RESULT"
              /\ arena'.players = arena.players
        /\ ~RunOver /\ RunOver' =>
              /\ ~AnsweredCorrectly
              /\ \E botCorrect \in SUBSET BotIds : HandleTimeUp(botCorrect)
        /\ ~arena.gameEnd.called /\ arena'.gameEnd.called =>
              /\ arena.deathTimeout.armed
              /\ arena'.gameEnd.rounds = arena.currentQuestionIndex + 1

\* C17: a Survival run goes to the next question after every round answered
\* correctly (waiting for questions when none is loaded), ends on the first
\* round whose outcome is incorrect or absent without presenting another
\* question, and no bot gains any score in it.
C17_Survival == []C17_NoBotScore /\ [][C17_Round]_vars

\* A Survival run that went through a correct round, then ended on a round
\* that was not
C17_Witness ==
    /\ arena.mode = "SURVIVAL"
    /\ arena.gameEnd.called
    /\ arena.gameEnd.rounds >= 2
    /\ arena.players[1].correctAnswersCount = arena.gameEnd.rounds - 1

\* The local participant's seat in a roster
Local(players) == PlayerState(players)

\* C18: in a Time-Attack session the local participant's score is never
\* below 0: neither the score of the roster, nor that score with the staged
\* outcome added, nor the score of the roster handed over at the end.
C18_TimeAttackScoreNotNegative ==
    arena.mounted \/ arena.gameEnd.called =>
        (arena.mode = "TIME_ATTACK" =>
            /\ Local(arena.players).score >= 0
            /\ Local(arena.players).score
                  + arena.pendingAnswerUpdate.scoreToAdd >= 0
            /\ arena.gameEnd.called => Local(arena.gameEnd.players).score >= 0)

\* A Time-Attack session that ended after an incorrect answer
C18_Witness ==
    /\ arena.mode = "TIME_ATTACK"
    /\ arena.gameEnd.called
    /\ arena.selectedOption = "wrong"
    /\ arena.pendingAnswerUpdate.set
    /\ Local(arena.gameEnd.players).score = 0

\* The flat change of a Time-Attack answer: a point more for a correct one,
\* a point less for an incorrect one, nothing less at 0
FlatChange(option, score) ==
    IF option = "right" THEN 1 ELSE IF score = 0 THEN 0 ELSE 0 - 1

\* C19: in a Time-Attack session an accepted answer changes the score by
\* the flat amount, +1 if correct and -1 (0 at score 0) if incorrect,
\* whatever the difficulty, the streak and the answer time: that is the
\* amount handleAnswer stages.
C19_FlatScoring ==
    [][\A option \in {"right", "wrong"}, e \in ArenaElapsed :
          /\ arena.mounted
          /\ arena.mode = "TIME_ATTACK"
          /\ arena.phase = "PLAYING"
          /\ arena.selectedOption = "null"
          /\ HandleAnswer(option, e)
          => arena'.pendingAnswerUpdate.scoreToAdd
               = FlatChange(option, Local(arena.players).score)]_vars

\* C21: the chance a bot's success is sampled with is at least 0.05 and at
\* most 0.98, whatever the bot's base accuracy, the jitter, the specialty
\* bonus and the rubber-banding adjustment.
C21_ChanceClamped == calc.done => calc.chance >= 50 /\ calc.chance <= 980

\* The best bot, on its specialty and far behind the human: the sum is over
\* 0.98 and the chance is 0.98
C21_Witness ==
    /\ calc.done
    /\ calc.bot = "bot-2"
    /\ calc.isSpecialty
    /\ calc.scoreDiff > 300
    /\ calc.chance = 980

\* One step of the round engine changes the phase along an arrow of the
\* state machine, moves the index only on the way back to PLAYING, and
\* changes nothing once the game is over
C22_Arrow ==
    LET p == EnginePhase(arena)
        q == EnginePhase(arena')
        index == arena.currentQuestionIndex
    IN  /\ p # q =>
              \/ p = "PLAYING" /\ q = "ROUND_RESULT"
              \/ /\ p = "ROUND_RESULT" /\ q = "PLAYING"
                 /\ arena'.currentQuestionIndex = index + 1
              \/ p = "ROUND_RESULT" /\ q = "GAME_OVER"
              \/ /\ p = "PLAYING" /\ q = "GAME_OVER"
                 /\ arena.mode = "TIME_ATTACK"
                 /\ \E botCorrect \in SUBSET BotIds : HandleTimeUp(botCorrect)
        /\ arena'.currentQuestionIndex # index =>
              p = "ROUND_RESULT" /\ q = "PLAYING"
        /\ p = "GAME_OVER" =>
              /\ q = "GAME_OVER"
              /\ arena'.phase = arena.phase
              /\ arena'.currentQuestionIndex = index
              /\ arena'.players = arena.players

\* C22: the phase changes only from PLAYING to ROUND_RESULT, from
\* ROUND_RESULT to PLAYING with the question index one higher, from
\* ROUND_RESULT to GAME_OVER, and from PLAYING to GAME_OVER in Time-Attack
\* when the clock expires; after GAME_OVER the phase, the index and the
\* roster never change.
C22_PhaseMachine == [][arena.mounted \/ arena.gameEnd.called => C22_Arrow]_vars

\* A Classic game that went through two rounds and ended
C22_Witness ==
    /\ arena.mode = "CLASSIC"
    /\ EnginePhase(arena) = "GAME_OVER"
    /\ arena.gameEnd.rounds >= 2

\* A step stages an outcome or emits a submit_answer
Stages ==
    \/ arena'.pendingAnswerUpdate.set
         /\ arena'.pendingAnswerUpdate # arena.pendingAnswerUpdate
    \/ \E msg \in {SubmitAnswerMsg(option, arena'.pendingAnswerUpdate.scoreToAdd) :
                     option \in {"right", "wrong"}} :
          arena'.outbox = Append(arena.outbox, msg)

\* An answer given when handleAnswer rejects answers changes nothing; an
\* outcome is staged or sent only in PLAYING with none staged, and the
\* staged one stays until the question changes
C23_Step ==
    /\ \A option \in {"right", "wrong"}, e \in ArenaElapsed :
          HandleAnswer(option, e) /\ Rejected(arena) =>
              /\ arena'.pendingAnswerUpdate = arena.pendingAnswerUpdate
              /\ arena'.players = arena.players
              /\ arena'.outbox = arena.outbox
              /\ arena'.selectedOption = arena.selectedOption
    /\ Stages =>
          /\ arena.phase = "PLAYING"
          /\ ~arena.pendingAnswerUpdate.set
          /\ arena.selectedOption = "null"
    /\ arena.pendingAnswerUpdate.set /\ ~arena'.pendingAnswerUpdate.set =>
          arena'.currentQuestionIndex # arena.currentQuestionIndex

\* C23: an answer is accepted only in PLAYING and at most once per question:
\* a second answer to the question, or an answer in ROUND_RESULT or
\* GAME_OVER, changes neither the staged outcome nor the roster and emits
\* no submit_answer.
C23_AnswerOnce == [][arena.mounted => C23_Step]_vars

\* An online client that answered and emitted, still in PLAYING: a second
\* answer is rejected here
C23_Witness ==
    /\ arena.mounted
    /\ arena.isOnline
    /\ arena.phase = "PLAYING"
    /\ arena.pendingAnswerUpdate.set
    /\ arena.outbox # <<>>
    /\ Rejected(arena)

\* C24: every step that enters PLAYING for a new question, the timed
\* advance as well as the resume from waiting for questions, leaves no
\* option selected and no outcome staged, so that the new question can be
\* answered.
C24_ResetOnEntry ==
    [][/\ arena.mounted
       /\ arena'.currentQuestionIndex # arena.currentQuestionIndex
       /\ arena'.phase = "PLAYING"
       => /\ arena'.selectedOption = "null"
          /\ ~arena'.pendingAnswerUpdate.set
          /\ ~Rejected(arena')]_vars

\* Answering stages and nothing else; the expiry of the timer enters
\* ROUND_RESULT and gives the local participant the staged outcome; the
\* roster changes at no other step
C25_Step ==
    /\ \A option \in {"right", "wrong"}, e \in ArenaElapsed :
          HandleAnswer(option, e) =>
              /\ arena'.phase = arena.phase
              /\ arena'.players = arena.players
              /\ ~Rejected(arena) =>
                    /\ arena'.phase = "PLAYING"
                    /\ arena'.pendingAnswerUpdate =
                          Staged(option = "right", Local(arena.players),
                                 arena.currentDifficulty, e)
    /\ \A botCorrect \in SUBSET BotIds :
          HandleTimeUp(botCorrect) =>
              LET update == arena.pendingAnswerUpdate
                  before == Local(arena.players)
                  after == Local(arena'.players)
              IN  /\ arena'.phase = "ROUND_RESULT"
                  /\ update.set =>
                        /\ after.score = before.score + update.scoreToAdd
                        /\ after.streak = update.streak
                        /\ after.correctAnswersCount =
                              before.correctAnswersCount
                              + (IF update.correct THEN 1 ELSE 0)
    /\ arena'.players # arena.players =>
          /\ arena.phase = "PLAYING"
          /\ \E botCorrect \in SUBSET BotIds : HandleTimeUp(botCorrect)

C26_TimeAttackImmediate ==
    [][\A option \in {"right", "wrong"}, e \in ArenaElapsed :
          /\ arena.mounted
          /\ arena.mode = "TIME_ATTACK"
          /\ ~Rejected(arena)
          /\ HandleAnswer(option, e)
          => arena'.phase = "ROUND_RESULT"]_vars

\* In a Time-Attack session the phase is never ROUND_RESULT and the question
\* index never moves: the first answer is the only one of the session
TimeAttackNeverResolves ==
    arena.mounted /\ arena.mode = "TIME_ATTACK" =>
        /\ arena.phase = "PLAYING"
        /\ arena.currentQuestionIndex = 0
        /\ Local(arena.players).score = 0

\* C27: when the timer expires in PLAYING with no outcome staged, the round
\* counts as an incorrect answer: the local human keeps their score and
\* their correct count, their streak is 0, and a Survival run is over (its
\* end is scheduled and no advance is).
C27_TimeUpUnanswered ==
    [][\A botCorrect \in SUBSET BotIds :
          /\ arena.mounted
          /\ arena.phase = "PLAYING"
          /\ ~arena.pendingAnswerUpdate.set
          /\ HandleTimeUp(botCorrect)
          => LET before == Local(arena.players)
                 after == Local(arena'.players)
             IN  /\ after.score = before.score
                 /\ after.streak = 0
                 /\ after.correctAnswersCount = before.correctAnswersCount
                 /\ arena.mode = "SURVIVAL" =>
                       /\ arena'.deathTimeout.armed
                       /\ ~arena'.nextQuestionTimeout.armed]_vars

\* A Classic round left unanswered by a player who had points and a streak
\* from the round before
C27_Witness ==
    /\ arena.mounted
    /\ arena.mode = "CLASSIC"
    /\ arena.phase = "ROUND_RESULT"
    /\ ~arena.pendingAnswerUpdate.set
    /\ arena.selectedOption = "null"
    /\ Local(arena.players).score > 0
    /\ Local(arena.players).correctAnswersCount = 1
    /\ Local(arena.players).streak = 0

\* The advance out of ROUND_RESULT, the resume from waiting, and the moves
\* of the question index
C28_Step ==
    LET index == arena.currentQuestionIndex IN
    /\ NextQuestionTimeout =>
          /\ arena.phase = "ROUND_RESULT"
          /\ IF arena.length > index + 1
             THEN /\ arena'.currentQuestionIndex = index + 1
                  /\ arena'.phase = "PLAYING"
                  /\ ~arena'.isWaitingForMore
             ELSE IF arena.mode \in {"SURVIVAL", "TIME_ATTACK"}
                  THEN /\ arena'.isWaitingForMore
                       /\ arena'.currentQuestionIndex = index
                       /\ arena'.phase = "ROUND_RESULT"
                       /\ ~arena'.gameEnd.called
                  ELSE /\ arena'.gameEnd.called
                       /\ arena'.currentQuestionIndex = index
    /\ \A more \in 1..2 :
          LoadMore(more) /\ arena.isWaitingForMore =>
              /\ arena'.currentQuestionIndex = index + 1
              /\ arena'.phase = "PLAYING"
              /\ ~arena'.isWaitingForMore
    /\ arena'.currentQuestionIndex \in {index, index + 1}
    /\ arena'.currentQuestionIndex = index + 1 =>
          /\ arena.phase = "ROUND_RESULT"
          /\ arena'.phase = "PLAYING"
          /\ arena'.length > index + 1

\* C28: out of ROUND_RESULT the engine goes to index + 1 in PLAYING if that
\* question is held; if none is held it waits in Survival and Time-Attack
\* and resumes at index + 1 when questions arrive, and it ends the game in
\* Classic. The index moves by exactly one, out of a resolved round only.
C28_Advance == [][arena.mounted => C28_Step]_vars

\* A Survival run that resumed at the second question after waiting for it
C28_Witness ==
    /\ arena.mounted
    /\ arena.mode = "SURVIVAL"
    /\ arena.phase = "PLAYING"
    /\ arena.currentQuestionIndex = 1
    /\ arena.selectedOption = "right"
    /\ ~arena.pendingAnswerUpdate.set

\* The Timer's isRunning: the countdown runs
TimerRuns(a) == a.phase = "PLAYING" /\ ~a.isWaitingForMore

\* The question shown in PLAYING is one of the questions held; while
\* waiting for questions the countdown is stopped
C29_Held ==
    arena.mounted =>
        /\ arena.phase = "PLAYING" => arena.currentQuestionIndex < arena.length
        /\ arena.isWaitingForMore =>
              /\ ~TimerRuns(arena)
              /\ arena.phase = "ROUND_RESULT"
              /\ arena.currentQuestionIndex = arena.length - 1

\* While waiting for questions no expiry of the timer is handled, and the
\* phase and the index move only as questions arrive
C29_Blocked ==
    arena.mounted /\ arena.isWaitingForMore =>
        /\ \A botCorrect \in SUBSET BotIds : ~HandleTimeUp(botCorrect)
        /\ ~NextQuestionTimeout
        /\ \/ arena'.phase # arena.phase
           \/ arena'.currentQuestionIndex # arena.currentQuestionIndex
           \/ arena'.isWaitingForMore # arena.isWaitingForMore
           => /\ arena'.length > arena.length
              /\ arena'.currentQuestionIndex < arena'.length

\* C29: the engine never runs ahead of the questions it holds: in PLAYING
\* the question index is below the number of questions held, and while
\* isWaitingForMore is true the countdown does not run, no timer expiry is
\* handled and neither the phase nor the index changes until questions have
\* arrived.
C29_NeverAhead == []C29_Held /\ [][C29_Blocked]_vars

\* A Survival run waiting for questions after its last held question was
\* answered correctly
C29_Witness ==
    /\ arena.mounted
    /\ arena.mode = "SURVIVAL"
    /\ arena.isWaitingForMore
    /\ Local(arena.players).correctAnswersCount = arena.length

\* While the engine waits for questions a fetch is in flight
C30_FetchInFlight ==
    arena.mounted /\ arena.isWaitingForMore => arena.loadingMore

\* A fetch that returns appends its questions, the backup set if it failed,
\* and always at least the number asked for
C30_Appended ==
    \A outcome \in FetchOutcomes :
        FetchReturns(outcome) =>
            /\ ~outcome.ok => arena'.length = arena.length + BackupSize
            /\ outcome.ok =>
                  arena'.length = arena.length
                      + (IF outcome.returned < LoadMoreCount
                         THEN LoadMoreCount ELSE outcome.returned)
            /\ arena.isWaitingForMore =>
                  arena'.phase = "PLAYING" /\ ~arena'.isWaitingForMore

\* C30: the session does not stall waiting for questions: while it waits a
\* fetch is in flight, a failed fetch yields the backup set and not an
\* error, a returned fetch appends its questions, and with every fetch
\* returning in the end the engine is in PLAYING again.
C30_NoStall ==
    /\ []C30_FetchInFlight
    /\ [][C30_Appended]_vars
    /\ (arena.mounted /\ arena.isWaitingForMore
           /\ arena.length + BackupSize <= MaxHeld)
         ~> (arena.phase = "PLAYING" /\ ~arena.isWaitingForMore)

\* A Survival run that waited for questions and resumed on the backup set of
\* a failed fetch
C30_Witness ==
    /\ arena.mounted
    /\ arena.mode = "SURVIVAL"
    /\ arena.phase = "PLAYING"
    /\ ~arena.isWaitingForMore
    /\ arena.currentQuestionIndex = 1
    /\ arena.length = 1 + BackupSize
    /\ arena.selectedOption = "right"
    /\ ~arena.pendingAnswerUpdate.set

\* C31: once the component is gone no callback it had scheduled runs: the
\* phase and the index stay, and onGameEnd (with the statistics finishGame
\* records before it) is not called.
C31_NoCallbackAfterTeardown ==
    [][~arena.mounted =>
          /\ arena'.gameEnd = arena.gameEnd
          /\ arena'.phase = arena.phase
          /\ arena'.currentQuestionIndex = arena.currentQuestionIndex]_vars

\* The points of all the outcomes the local human staged in the session:
\* those of the resolved rounds are in the roster, and a Time-Attack session
\* resolves none, so its staged outcome comes on top
Earned(a) ==
    Local(a.players).score
        + (IF a.mode = "TIME_ATTACK" THEN a.pendingAnswerUpdate.scoreToAdd ELSE 0)

\* C32: the roster handed to onGameEnd holds the outcome of every answered
\* round, the last one included: the local human's score in it is the sum of
\* the points of all their staged outcomes.
C32_FinalRoster ==
    arena.gameEnd.called =>
        Local(arena.gameEnd.players).score = Earned(arena)

\* The seats of the other participants are the same in the two rosters
SameRemotes(before, after) ==
    /\ Len(after) = Len(before)
    /\ \A i \in 1..Len(before) :
          before[i].id # "me" => after[i] = before[i]

\* C33: in an online room the round resolution gives the staged outcome to
\* the local participant's seat only: the seats of the remote participants
\* change with a received update_players broadcast and at no other step.
C33_RemotesAsReceived ==
    [][arena.mounted /\ arena.isOnline =>
          /\ \A botCorrect \in SUBSET BotIds :
                HandleTimeUp(botCorrect) =>
                    SameRemotes(arena.players, arena'.players)
          /\ ~SameRemotes(arena.players, arena'.players) => UpdatePlayers]_vars

\* The seat the registry holds for the local participant
RegistrySeat(a) == a.registry[SeatIndex(a.registry, "me")]

\* Nothing is in flight between the client and the registry
Quiet(a) == a.outbox = << >> /\ a.inbox = << >>

\* C34: in an online room, when the first round is resolved, the registry has
\* counted the local participant's answer and nothing is in flight, the score
\* the client holds for the local participant equals the score the registry
\* holds for that seat: the points of the answer are counted once.
C34_CountedOnce ==
    ( /\ arena.mounted /\ arena.isOnline
      /\ arena.phase = "ROUND_RESULT"
      /\ arena.currentQuestionIndex = 0
      /\ Quiet(arena)
      /\ RegistrySeat(arena).score > 0 )
        => Local(arena.players).score = RegistrySeat(arena).score

\* No entry of the roster is a bot
NoBots(players) == \A i \in 1..Len(players) : ~players[i].isBot

\* C35: bots exist only in solo sessions outside Survival: in an engine that
\* started with a roster of more than one participant, and in every Survival
\* session, no roster entry is a bot at any time, whatever rosters the
\* registry has broadcast, and the roster handed over at the end has none.
C35_BotsOnlySolo ==
    (arena.isOnline \/ arena.mode = "SURVIVAL") =>
        /\ NoBots(arena.players)
        /\ arena.gameEnd.called => NoBots(arena.gameEnd.players)

C35_Witness ==
    /\ arena.isOnline
    /\ arena.mode = "CLASSIC"
    /\ arena.remote > 0
    /\ arena.inbox = << >>
    /\ arena.currentQuestionIndex > 0
    /\ Local(arena.players).score > 0

\* C36: in every room in phase LOBBY the host transport id is the transport
\* id of the seat at roster index 0, after any sequence of create, join,
\* rejoin and disconnect messages.
C36_HostIsFirstSeat ==
    \A r \in DOMAIN rooms :
        rooms[r].phase = "LOBBY" =>
            rooms[r].hostId = rooms[r].players[1].socketId

\* C37: after disconnect(t) has been handled, no room in phase LOBBY contains
\* a seat whose transport id is t.
C37_NoSeatAfterDisconnect ==
    [][\A t \in Sockets :
          Disconnect(t) =>
              \A r \in DOMAIN rooms' :
                  rooms'[r].phase = "LOBBY" =>
                      \A i \in 1..Len(rooms'[r].players) :
                          rooms'[r].players[i].socketId # t]_vars

\* Transport t holds a seat of the roster
HoldsSeat(players, t) == \E i \in 1..Len(players) : players[i].socketId = t

\* The late disconnect of t, the old transport of a reclaimed seat, leaves
\* the room registered and exactly as it is, the seat on its new transport
LateDisconnectSpares(r, rec) ==
    /\ r \in DOMAIN rooms'
    /\ rooms'[r] = rooms[r]
    /\ Seated(rooms'[r], rec.id)
    /\ SeatOf(rooms'[r], rec.id).socketId = rec.new

\* C38 as stated: when the rejoin of a seat on a new transport has been
\* processed, the late disconnect of the old transport leaves the room
\* exactly as it is (no seat removed, no host changed, no room deleted).
C38_AsStated ==
    [][\A t \in ReSockets :
          Disconnect(t) =>
              \A r \in DOMAIN rooms : \A rec \in superseded[r] :
                  rec.old = t =>
                      r \in DOMAIN rooms' /\ rooms'[r] = rooms[r]]_vars

\* C38, amended: when the rejoin of a seat on a new transport has been
\* processed and the old transport holds no seat of the room, the late
\* disconnect of the old transport removes no seat, changes no host and
\* deletes no room, in LOBBY as well as in PLAYING, and the seat keeps the
\* new transport id.
C38_SeatOnNew ==
    \A r \in DOMAIN rooms : \A rec \in superseded[r] :
        Seated(rooms[r], rec.id) /\ SeatOf(rooms[r], rec.id).socketId = rec.new

C38_LateDisconnect ==
    /\ []C38_SeatOnNew
    /\ [][\A t \in ReSockets :
          Disconnect(t) =>
              \A r \in DOMAIN rooms : \A rec \in superseded[r] :
                  (rec.old = t /\ ~HoldsSeat(rooms[r].players, t)) =>
                      LateDisconnectSpares(r, rec)]_vars

C38_Witness ==
    /\ last.op = "disconnect"
    /\ \E r \in DOMAIN rooms : \E rec \in superseded[r] :
          /\ rec.old = last.sock
          /\ rooms[r].phase = "LOBBY"
          /\ Len(rooms[r].players) = 2
          /\ SeatOf(rooms[r], rec.id).socketId = rec.new
          /\ rooms[r].hostId = rec.new

\* No two seats of the roster have the same stable id
UniqueIds(players) ==
    Cardinality({players[i].id : i \in 1..Len(players)}) = Len(players)

\* The roster after a join under a seated stable id: the same seats in the
\* same order, that seat on transport s
Reclaimed(players, pid, s) ==
    [i \in 1..Len(players) |->
        IF players[i].id = pid THEN [players[i] EXCEPT !.socketId = s]
        ELSE players[i]]

\* What a join_room of transport s under stable id pid does to the roster of
\* an existing room
C39_Join(s, r, pid) ==
    LET before == rooms[r].players
        after == rooms'[r].players
    IN
    IF Seated(rooms[r], pid)
    THEN after = Reclaimed(before, pid, s)
    ELSE IF rooms[r].phase = "LOBBY" /\ Len(before) < MaxPlayers
    THEN /\ Len(after) = Len(before) + 1
         /\ SubSeq(after, 1, Len(before)) = before
         /\ after[Len(after)].id = pid
         /\ after[Len(after)].socketId = s
    ELSE after = before

\* C39: within one room no two seats ever have the same stable id: a join
\* under a stable id that is already seated appends no seat (roster length and
\* seat order unchanged, only that seat's transport id updated), and a join
\* under a new stable id, when the room admits it, appends exactly one seat at
\* the end of the roster (a join turned away leaves the roster as it is).
C39_Seats ==
    [][/\ \A r \in DOMAIN rooms' : UniqueIds(rooms'[r].players)
       /\ \A s \in Sockets, r \in DOMAIN rooms, pid \in FullIds :
             JoinRoom(s, r, pid) =>
                 r \in DOMAIN rooms' /\ C39_Join(s, r, pid)]_vars

C39_Witness ==
    /\ last.op = "join_room"
    /\ last.sock = 2
    /\ \E r \in DOMAIN rooms :
          /\ Len(rooms[r].players) = 3
          /\ \A i \in 1..3 : rooms[r].players[i].id = i
          /\ rooms[r].players[1].socketId = 1
          /\ rooms[r].players[2].socketId = 2
          /\ rooms[r].players[3].socketId = 1

\* Every room other than room a is registered as before and unchanged: its
\* roster, host transport id, config, phase and question set
OtherRoomsUnchanged(a) ==
    /\ DOMAIN rooms' \ {a} = DOMAIN rooms \ {a}
    /\ \A b \in DOMAIN rooms \ {a} : rooms'[b] = rooms[b]

\* A join_room, update_config, start_game or submit_answer message of
\* transport s addressed to room a is handled
AddressedTo(s, a) ==
    \/ \E pid \in StableIds : JoinRoom(s, a, pid)
    \/ \E cfg \in Configs : UpdateConfig(s, a, cfg)
    \/ StartGame(s, a, 1, FALSE)
    \/ SubmitAnswer(s, a, 120)

\* C40: rooms are independent: a join_room, update_config, start_game or
\* submit_answer message addressed to room A leaves the roster, host
\* transport id, config, phase and question set of every other room
\* unchanged.
C40_RoomsIndependent ==
    [][\A s \in Sockets, a \in ManyRoomIds :
          (last'.sock = s /\ last'.room = a /\ AddressedTo(s, a)) =>
              OtherRoomsUnchanged(a)]_vars

C40_Witness ==
    /\ DOMAIN rooms = ManyRoomIds
    /\ rooms[1].phase = "LOBBY"
    /\ rooms[1].config = 1
    /\ rooms[1].players[1].score = 0
    /\ rooms[2].phase = "PLAYING"
    /\ rooms[2].config = 2
    /\ rooms[2].players[1].score = 120
    /\ rooms[1].players[1].socketId = rooms[2].players[1].socketId
    /\ last.op = "submit_answer"
====
